---------------------------- MODULE Spec2Model ----------------------------
(***************************************************************************)
(* TrackMyRun: goal completion evaluator (utils/goalCompletion.ts,         *)
(* utils/calculations.ts), application state (context/AppContext.tsx) and  *)
(* batch file import (components/import/FileImport.tsx).                   *)
(*                                                                         *)
(* Units.  Distances are integers in thousandths of a mile, paces are      *)
(* integers in hundredths of a minute per mile.  The clock counts ticks,   *)
(* TicksPerDay ticks to a calendar day; a goal's target_date is a day      *)
(* number (the column is a date without time of day).                      *)
(***************************************************************************)
EXTENDS Integers, Sequences, FiniteSets, TLC

VARIABLES
    \* --- evaluator of one goal (checkGoalCompletion as a function) ---
    goal,        \* the goal handed to checkGoalCompletion
    gRuns,       \* the run history handed to it
    now,         \* the wall clock read by `new Date()`
    progress,    \* the GoalProgress returned, NoProgress before the call
    pcG,         \* "idle" | "done" | "fastest" | "percent"
    gFastest,    \* what getFastestRun returned for gRuns
    gPercent,    \* what getGoalProgressPercentage returned for goal, gRuns
    \* --- batch evaluation (checkAllGoalsForCompletion called twice) ---
    bGoals,      \* the goal list of the caller
    bRuns,       \* the run history of the caller
    bOut1,       \* result of the first call
    bOut2,       \* result of the second call
    bNow1,       \* the clock at the first call
    bNow2,       \* the clock at the second call
    pcB,         \* "idle" | "called" | "persisted" | "recalled"
    \* --- application state (AppProvider) and the persistence layer ---
    currentUserId, \* the prop of AppProvider, NoUser when logged out
    runs,        \* useState<Run[]>
    goals,       \* useState<Goal[]>
    dbRuns,      \* rows of table runs
    dbGoals,     \* rows of table goals
    pending,     \* the async calls in flight, in the order they were started
    nextId,      \* next identifier the persistence layer assigns
    opsLeft,     \* user operations still allowed in this run of the model
    lastStep,    \* the step of AppProvider taken last
    \* --- batch file import (FileImport.processFiles) ---
    files,       \* the File[] handed to processFiles
    imp,         \* the invocation of processFiles: position and locals
    results,     \* useState<ImportResult[]>
    isProcessing, \* useState(false)
    \* --- calculateTotalDistance on a run list and on a reordering of it ---
    sRuns,       \* the run list
    sPerm,       \* the same runs in another order
    sTotal,      \* calculateTotalDistance(sRuns)
    sPermTotal,  \* calculateTotalDistance(sPerm)
    pcS,         \* "idle" | "done"
    \* --- file parsers (utils/garminParser.ts) ---
    doc,         \* the file content handed to a parser
    parsed,      \* what the parser returned
    pcP          \* "idle" | "done"

goalVars  == <<goal, gRuns, progress, pcG, gFastest, gPercent>>
batchVars == <<bGoals, bRuns, bOut1, bOut2, bNow1, bNow2, pcB>>
appVars   == <<currentUserId, runs, goals, dbRuns, dbGoals, pending, nextId, opsLeft,
               lastStep>>
importVars == <<files, imp, results, isProcessing>>
sumVars   == <<sRuns, sPerm, sTotal, sPermTotal, pcS>>
parseVars == <<doc, parsed, pcP>>
vars      == <<goalVars, batchVars, appVars, importVars, sumVars, parseVars, now>>

-----------------------------------------------------------------------------
(* Bounds of the model *)

MaxRuns     == 2    \* longest run history
MaxGoals    == 2    \* longest goal list in a batch evaluation
MaxDay      == 2    \* last calendar day the clock reaches
MaxOps      == 2    \* handler calls and log-outs in one behaviour
MaxPending  == 2    \* calls a user starts while others are still in flight
MaxFiles    == 2    \* files in one import batch
MaxRecs     == 2    \* records the CSV parser returns for one file
MaxSummands == 3    \* runs whose distances are added as doubles
MaxRows     == 2    \* data lines of a CSV document
MaxLaps     == 2    \* laps of a TCX document
MaxPoints   == 3    \* track points of a GPX document
MaxLineLen  == 5    \* characters of a line handed to parseCSVLine

-----------------------------------------------------------------------------
(* Values *)

\* Clock resolution: a Date carries a time of day, a target_date does not.
\* Tick 0 of a day is local midnight, the value parseISO gives a date.
TicksPerDay == 2

Null == -1          \* null / undefined of an optional numeric field

OneMile == 1000     \* 1 mile, in thousandths of a mile

SeqsUpTo(S, n) == UNION {[1..k -> S] : k \in 0..n}

\* Run distances avoid exact ties of the rounding to 2 decimals (x.xx5), whose
\* outcome in IEEE doubles depends on the binary representation.
RunDistances == {496, 2504}
RunPaces     == {700, 900}
RunDomain    == [distance : RunDistances, pace : RunPaces]

TargetDistances == {Null, 0, 3000, 5010}
TargetPaces     == {Null, 0, 800}
Days            == 1..MaxDay
GoalIds         == 1..MaxGoals

Clock == TicksPerDay..(MaxDay * TicksPerDay + TicksPerDay - 1)

-----------------------------------------------------------------------------
(* utils/calculations.ts *)

RECURSIVE SumDistance(_)
SumDistance(rs) ==
    IF rs = <<>> THEN 0
    ELSE SumDistance(SubSeq(rs, 1, Len(rs) - 1)) + rs[Len(rs)].distance

\* Number.toFixed(2) followed by parseFloat: the nearest multiple of 0.01,
\* the larger one on a tie.
ToFixed2(x) == ((x + 5) \div 10) * 10

CalculateTotalDistance(rs) == ToFixed2(SumDistance(rs))

\* The same calculation on IEEE 754 doubles, for distances that are decimals
\* of three places between 2^-8 and 64 miles. A double x is kept as the pair
\* (t, d) with x * 1000 = t + d / 2^57 exactly: t is the decimal it stands for,
\* in thousandths, and d its representation error. With x = M * 2^-60 for an
\* integer M, d = 125 * M - t * 2^57.
RECURSIVE TimesPow2Mod(_, _, _)
TimesPow2Mod(k, n, modulus) ==
    IF n = 0 THEN k % modulus
    ELSE IF n >= 10 THEN TimesPow2Mod((1024 * k) % modulus, n - 10, modulus)
    ELSE TimesPow2Mod((2 * k) % modulus, n - 1, modulus)

\* Unit in the last place of the binade of x, in units of 2^-60: the largest
\* power of two p >= from with x >= p * 2^-8.
RECURSIVE Ulp(_, _)
Ulp(from, x) ==
    IF \/ x.t * 256 > 1000 * 2 * from
       \/ x.t * 256 = 1000 * 2 * from /\ x.d >= 0
        THEN Ulp(2 * from, x)
        ELSE from

\* The double nearest to a decimal given in thousandths.
ToDouble(thousandths) ==
    IF thousandths = 0 THEN [t |-> 0, d |-> 0]
    ELSE LET range == 125 * Ulp(1, [t |-> thousandths, d |-> 0])
             res   == TimesPow2Mod(thousandths % range, 57, range)
         IN  [t |-> thousandths,
              d |-> IF 2 * res <= range THEN 0 - res ELSE range - res]

\* a + b: the exact sum rounded to the nearest double, ties to even.
AddDouble(a, b) ==
    IF a.t = 0 THEN b
    ELSE IF b.t = 0 THEN a
    ELSE LET exact == [t |-> a.t + b.t, d |-> a.d + b.d]
             U     == Ulp(1, exact)
             \* the inverse of 125 modulo 2 * U, by Newton's iteration
             step(y) == (y * ((2 + 2 * U - ((125 * y) % (2 * U))) % (2 * U))) % (2 * U)
             inv125  == step(step(step(5 % (2 * U))))
             \* the exact sum's M modulo 2 * U and modulo U
             r2    == ((exact.d % (2 * U)) * inv125) % (2 * U)
             r     == r2 % U
             up    == 2 * r > U \/ (2 * r = U /\ r2 >= U)
         IN  [t |-> exact.t,
              d |-> IF up THEN exact.d + 125 * (U - r) ELSE exact.d - 125 * r]

RECURSIVE SumDoubles(_)
SumDoubles(rs) ==
    IF rs = <<>> THEN ToDouble(0)
    ELSE AddDouble(SumDoubles(SubSeq(rs, 1, Len(rs) - 1)), ToDouble(rs[Len(rs)].distance))

\* Number.toFixed(2) of a double: the n for which n / 100 - x is closest to
\* zero, the larger n if there are two; then parseFloat of the digits.
ToFixed2OfDouble(x) ==
    LET below == (x.t \div 10) * 10
        rest  == x.t % 10
    IN  IF rest > 5 \/ (rest = 5 /\ x.d >= 0) THEN below + 10 ELSE below

CalculateTotalDistanceOfDoubles(rs) == ToFixed2OfDouble(SumDoubles(rs))

NoRun == [distance |-> 0, pace |-> 0, none |-> TRUE]

AsRun(r) == [distance |-> r.distance, pace |-> r.pace, none |-> FALSE]

IsValidRun_Any(run) == TRUE

IsValidRun(run) == run.distance >= OneMile

RECURSIVE ReduceFastest(_, _)
ReduceFastest(fastest, rest) ==
    IF rest = <<>> THEN fastest
    ELSE ReduceFastest(IF Head(rest).pace < fastest.pace THEN Head(rest) ELSE fastest,
                       Tail(rest))

GetFastestRun(rs) ==
    LET validRuns == SelectSeq(rs, IsValidRun)
    IN  IF Len(validRuns) = 0 THEN NoRun
        ELSE AsRun(ReduceFastest(validRuns[1], validRuns))

-----------------------------------------------------------------------------
(* utils/goalCompletion.ts *)

Truthy_NotNull(x) == x # Null

\* if (goal.target_distance), if (goal.target_pace)
Truthy(x) == x # Null /\ x # 0

\* parseISO of a date-only string: local midnight of that day.
ParseISO(target_date) == target_date * TicksPerDay

IsAfter(a, b) == a > b

ToDateString(t) == t \div TicksPerDay

IsDateReached(today, target_date) ==
    \/ IsAfter(today, ParseISO(target_date))
    \/ ToDateString(today) = ToDateString(ParseISO(target_date))

Undefined == [num |-> 0, den |-> 0]
Percent(n, d) == [num |-> n * 100, den |-> d]

DistanceAchieved(totalDistance, target_distance) == totalDistance >= target_distance

PaceAchieved_NoNullCheck(fastestRun, target_pace) ==
    fastestRun.pace <= target_pace

PaceAchieved(fastestRun, target_pace) ==
    ~fastestRun.none /\ fastestRun.pace <= target_pace

CombinedAchieved_Either(distanceAchieved, paceAchieved) ==
    distanceAchieved \/ paceAchieved

CombinedAchieved(distanceAchieved, paceAchieved) ==
    distanceAchieved /\ paceAchieved

ShouldAutoComplete_AchievedOnly(isAchieved, isDateReached) == isAchieved

ShouldAutoComplete(isAchieved, isDateReached) == isAchieved /\ isDateReached

AlreadyCompleted_Recomputed(isDateReached) ==
    [isCompleted |-> isDateReached, isAchieved |-> TRUE,
     isDateReached |-> isDateReached,
     distanceProgress |-> Undefined, paceProgress |-> Undefined,
     message |-> <<"Goal completed">>]

AlreadyCompleted(isDateReached) ==
    [isCompleted |-> TRUE, isAchieved |-> TRUE,
     isDateReached |-> isDateReached,
     distanceProgress |-> Undefined, paceProgress |-> Undefined,
     message |-> <<"Goal completed">>]

CheckGoalCompletion(g, rs, today) ==
    LET isDateReached == IsDateReached(today, g.target_date)
        totalDistance == CalculateTotalDistance(rs)
        fastestRun    == GetFastestRun(rs)
        hasDistance   == Truthy(g.target_distance)
        hasPace       == Truthy(g.target_pace)
        \* lines 38-49
        distAch       == hasDistance /\ DistanceAchieved(totalDistance, g.target_distance)
        distanceProgress ==
            IF hasDistance THEN Percent(totalDistance, g.target_distance) ELSE Undefined
        achieved1     == distAch
        msg1          == IF ~hasDistance THEN ""
                         ELSE IF distAch THEN "Distance goal achieved"
                         ELSE "Distance progress"
        \* lines 51-64
        paceAch       == hasPace /\ PaceAchieved(fastestRun, g.target_pace)
        bestPace      == IF fastestRun.none THEN 0 ELSE fastestRun.pace
        paceProgress  ==
            IF ~hasPace THEN Undefined
            ELSE IF paceAch THEN Percent(1, 1)
            ELSE IF bestPace > 0 THEN Percent(g.target_pace, bestPace)
            ELSE Percent(0, 1)
        achieved2     == IF paceAch THEN TRUE ELSE achieved1
        msg2          == IF ~hasPace THEN msg1
                         ELSE IF paceAch THEN "Pace goal achieved"
                         ELSE "Best pace"
        \* lines 66-85
        both          == hasDistance /\ hasPace
        distanceAchieved == DistanceAchieved(totalDistance, g.target_distance)
        paceAchieved  == PaceAchieved(fastestRun, g.target_pace)
        isAchieved    == IF both THEN CombinedAchieved(distanceAchieved, paceAchieved)
                         ELSE achieved2
        achievementMessage ==
            IF ~both THEN msg2
            ELSE IF isAchieved THEN "Both distance and pace goals achieved!"
            ELSE IF distanceAchieved THEN "Distance achieved, pace goal remaining"
            ELSE IF paceAchieved THEN "Pace achieved, distance goal remaining"
            ELSE "Working towards both distance and pace goals"
        \* lines 87-106
        shouldAutoComplete == ShouldAutoComplete(isAchieved, isDateReached)
        message ==
            IF shouldAutoComplete
                THEN <<"Goal automatically completed!", achievementMessage>>
            ELSE IF isAchieved /\ ~isDateReached
                THEN <<"Goal achieved! Will auto-complete on", ToString(g.target_date)>>
            ELSE IF ~isAchieved /\ isDateReached
                THEN <<"Target date reached.", achievementMessage>>
            ELSE <<achievementMessage>>
    IN  IF g.completed THEN AlreadyCompleted(isDateReached)
        ELSE [isCompleted |-> shouldAutoComplete, isAchieved |-> isAchieved,
              isDateReached |-> isDateReached,
              distanceProgress |-> distanceProgress, paceProgress |-> paceProgress,
              message |-> message]

\* Math.min(100, p) and (p + q) / 2 on percentages kept as fractions.
MinPercent(p) == IF p.num > 100 * p.den THEN Percent(1, 1) ELSE p

Average(p, q) == [num |-> p.num * q.den + q.num * p.den, den |-> 2 * p.den * q.den]

GetGoalProgressPercentage(g, rs, today) ==
    LET p == CheckGoalCompletion(g, rs, today)
    IN  IF p.isCompleted THEN Percent(1, 1)
        ELSE IF Truthy(g.target_distance) /\ p.distanceProgress # Undefined
            THEN MinPercent(p.distanceProgress)
        ELSE IF Truthy(g.target_pace) /\ p.paceProgress # Undefined
            THEN MinPercent(p.paceProgress)
        ELSE IF /\ Truthy(g.target_distance) /\ Truthy(g.target_pace)
                /\ p.distanceProgress # Undefined /\ p.paceProgress # Undefined
            THEN MinPercent(Average(p.distanceProgress, p.paceProgress))
        ELSE Percent(0, 1)

NewlyCompleted_NoGuard(p, g) == p.isCompleted

NewlyCompleted(p, g) == p.isCompleted /\ ~g.completed

PushCompleted_Unchanged(g) == g

PushCompleted(g) == [g EXCEPT !.completed = TRUE]

RECURSIVE CheckAllLoop(_, _, _, _)
CheckAllLoop(goalsToUpdate, rest, rs, today) ==
    IF rest = <<>> THEN goalsToUpdate
    ELSE LET g == Head(rest)
             p == CheckGoalCompletion(g, rs, today)
         IN  CheckAllLoop(IF NewlyCompleted(p, g)
                              THEN Append(goalsToUpdate, PushCompleted(g))
                              ELSE goalsToUpdate,
                          Tail(rest), rs, today)

CheckAllGoalsForCompletion(gs, rs, today) ==
    CheckAllLoop(<<>>, gs, rs, today)

NoUser == 0         \* currentUserId = null

SumIdle ==
    /\ sRuns = <<>> /\ sPerm = <<>> /\ sTotal = 0 /\ sPermTotal = 0 /\ pcS = "idle"

NoDoc == [kind |-> "none"]

ParseIdle == doc = NoDoc /\ parsed = NoDoc /\ pcP = "idle"

NoImport ==
    [pc |-> "idle", idx |-> 0, newResults |-> <<>>, recIdx |-> 0,
     successCount |-> 0, errorCount |-> 0, log |-> <<>>, raised |-> {}]

ImportIdle ==
    /\ files = <<>> /\ imp = NoImport /\ results = <<>> /\ isProcessing = FALSE

NoStep == [step |-> "none", kind |-> "none", uid |-> NoUser, ok |-> FALSE]

AppIdle ==
    /\ currentUserId = NoUser /\ runs = <<>> /\ goals = <<>>
    /\ dbRuns = <<>> /\ dbGoals = <<>> /\ pending = <<>>
    /\ nextId = 1 /\ opsLeft = 0 /\ lastStep = NoStep

-----------------------------------------------------------------------------
(* Specification SpecGoal: checkGoalCompletion applied to one goal *)

GoalDomain ==
    [id : {1}, target_date : Days, target_distance : TargetDistances,
     target_pace : TargetPaces, completed : BOOLEAN]

NoProgress ==
    [isCompleted |-> FALSE, isAchieved |-> FALSE, isDateReached |-> FALSE,
     distanceProgress |-> Undefined, paceProgress |-> Undefined,
     message |-> <<"not called">>]

BatchIdle ==
    /\ bGoals = <<>> /\ bRuns = <<>> /\ bOut1 = <<>> /\ bOut2 = <<>>
    /\ bNow1 = 0 /\ bNow2 = 0 /\ pcB = "idle"

GoalIdle ==
    /\ goal = [id |-> 1, target_date |-> 1, target_distance |-> Null,
               target_pace |-> Null, completed |-> FALSE]
    /\ gRuns = <<>> /\ progress = NoProgress /\ pcG = "idle"
    /\ gFastest = NoRun /\ gPercent = Undefined

InitGoal ==
    /\ goal \in GoalDomain
    /\ gRuns \in SeqsUpTo(RunDomain, MaxRuns)
    /\ now \in Clock
    /\ progress = NoProgress
    /\ pcG = "idle"
    /\ gFastest = NoRun /\ gPercent = Undefined
    /\ BatchIdle
    /\ AppIdle
    /\ ImportIdle
    /\ SumIdle
    /\ ParseIdle

CallCheckGoalCompletion ==
    /\ pcG = "idle"
    /\ progress' = CheckGoalCompletion(goal, gRuns, now)
    /\ pcG' = "done"
    /\ UNCHANGED <<goal, gRuns, now, gFastest, gPercent, batchVars, appVars, importVars,
                   sumVars, parseVars>>

CallGetFastestRun ==
    /\ pcG = "idle"
    /\ gFastest' = GetFastestRun(gRuns)
    /\ pcG' = "fastest"
    /\ UNCHANGED <<goal, gRuns, now, progress, gPercent, batchVars, appVars, importVars,
                   sumVars, parseVars>>

CallGetGoalProgressPercentage ==
    /\ pcG = "idle"
    /\ gPercent' = GetGoalProgressPercentage(goal, gRuns, now)
    /\ pcG' = "percent"
    /\ UNCHANGED <<goal, gRuns, now, progress, gFastest, batchVars, appVars, importVars,
                   sumVars, parseVars>>

NextGoal ==
    \/ CallCheckGoalCompletion
    \/ CallGetFastestRun
    \/ CallGetGoalProgressPercentage

SpecGoal == InitGoal /\ [][NextGoal]_vars

-----------------------------------------------------------------------------
(* Specification SpecBatch: checkAllGoalsForCompletion, the caller storing  *)
(* the returned goals, and a second call                                    *)

BatchTargets ==
    {t \in [target_distance : {Null, 3000}, target_pace : {800}] :
        t.target_distance # Null \/ t.target_pace # Null}

BatchGoalShapes ==
    [target_date : Days, targets : BatchTargets, completed : BOOLEAN]

MkGoals(shapes) ==
    [i \in 1..Len(shapes) |->
        [id |-> i, target_date |-> shapes[i].target_date,
         target_distance |-> shapes[i].targets.target_distance,
         target_pace |-> shapes[i].targets.target_pace,
         completed |-> shapes[i].completed]]

BatchRunDomain == [distance : {2504}, pace : RunPaces]

InitBatch ==
    /\ \E shapes \in SeqsUpTo(BatchGoalShapes, MaxGoals) : bGoals = MkGoals(shapes)
    /\ bRuns \in SeqsUpTo(BatchRunDomain, MaxRuns)
    /\ now \in {d * TicksPerDay : d \in Days}
    /\ bOut1 = <<>> /\ bOut2 = <<>> /\ bNow1 = 0 /\ bNow2 = 0
    /\ pcB = "idle"
    /\ GoalIdle
    /\ AppIdle
    /\ ImportIdle
    /\ SumIdle
    /\ ParseIdle

\* The wall clock advances between the calls.
Tick ==
    /\ now + 1 \in Clock
    /\ now' = now + 1
    /\ UNCHANGED <<goalVars, batchVars, appVars, importVars, sumVars,
                   parseVars>>

CallFirst ==
    /\ pcB = "idle"
    /\ bOut1' = CheckAllGoalsForCompletion(bGoals, bRuns, now)
    /\ bNow1' = now
    /\ pcB' = "called"
    /\ UNCHANGED <<bGoals, bRuns, bOut2, bNow2, now, goalVars, appVars, importVars, sumVars,
                   parseVars>>

\* prev.map(goal => goalsToUpdate.find(g => g.id === goal.id) ? {...goal, completed: true} : goal)
MarkCompleted(prev, goalsToUpdate) ==
    [i \in 1..Len(prev) |->
        IF \E k \in 1..Len(goalsToUpdate) : goalsToUpdate[k].id = prev[i].id
            THEN [prev[i] EXCEPT !.completed = TRUE]
            ELSE prev[i]]

\* The caller stores the flips (AppContext.checkGoalCompletions).
PersistFlips ==
    /\ pcB = "called"
    /\ bGoals' = MarkCompleted(bGoals, bOut1)
    /\ pcB' = "persisted"
    /\ UNCHANGED <<bRuns, bOut1, bOut2, bNow1, bNow2, now, goalVars, appVars, importVars, sumVars,
                   parseVars>>

CallSecond ==
    /\ pcB = "persisted"
    /\ bOut2' = CheckAllGoalsForCompletion(bGoals, bRuns, now)
    /\ bNow2' = now
    /\ pcB' = "recalled"
    /\ UNCHANGED <<bGoals, bRuns, bOut1, bNow1, now, goalVars, appVars, importVars, sumVars,
                   parseVars>>

NextBatch == Tick \/ CallFirst \/ PersistFlips \/ CallSecond

SpecBatch == InitBatch /\ [][NextBatch]_vars

-----------------------------------------------------------------------------
(* Specification Spec: AppProvider (context/AppContext.tsx) and the         *)
(* persistence layer.  An async call is started (its code up to the first   *)
(* await), the persistence layer executes the request (DbExec) and the      *)
(* continuation runs on the response (Resume).  A state update is followed  *)
(* in the same step by the render and the effects it triggers.              *)

Users == {1}

RunForms == [distance : {1500, 3000}, pace : {900}]

GoalForms ==
    [target_date : {1, 2}, target_distance : {3000}, target_pace : {Null},
     completed : BOOLEAN]

NoArg == [none |-> TRUE]

NewOp(kind, uid, id, arg) ==
    [kind |-> kind, uid |-> uid, id |-> id, arg |-> arg, stage |-> "sent",
     ok |-> FALSE, data |-> NoArg, rows |-> <<>>, todo |-> <<>>]

Row(id, uid, form) == [id |-> id, user_id |-> uid] @@ form

RemoveAt(s, i) == SubSeq(s, 1, i - 1) \o SubSeq(s, i + 1, Len(s))

\* {...row, ...updates} on the rows with this id
Merge(rows, id, upd) ==
    [k \in 1..Len(rows) |-> IF rows[k].id = id THEN upd @@ rows[k] ELSE rows[k]]

\* .update(upd).eq('id', id).eq('user_id', uid)
UpdateRows(rows, id, uid, upd) ==
    [k \in 1..Len(rows) |->
        IF rows[k].id = id /\ rows[k].user_id = uid THEN upd @@ rows[k] ELSE rows[k]]

\* .delete().eq('id', id).eq('user_id', uid)
DeleteRows(rows, id, uid) ==
    SelectSeq(rows, LAMBDA r : ~(r.id = id /\ r.user_id = uid))

\* .select('*').eq('user_id', uid)
RowsOf(rows, uid) == SelectSeq(rows, LAMBDA r : r.user_id = uid)

RECURSIVE InsertByDate(_, _)
InsertByDate(sorted, g) ==
    IF sorted = <<>> THEN <<g>>
    ELSE IF Head(sorted).target_date <= g.target_date
        THEN <<Head(sorted)>> \o InsertByDate(Tail(sorted), g)
        ELSE <<g>> \o sorted

\* .order('target_date', { ascending: true })
RECURSIVE OrderByTargetDate(_)
OrderByTargetDate(rows) ==
    IF rows = <<>> THEN <<>>
    ELSE InsertByDate(OrderByTargetDate(SubSeq(rows, 1, Len(rows) - 1)),
                      rows[Len(rows)])

Ids(rows) == {rows[k].id : k \in 1..Len(rows)}

\* The identifiers a caller can pass: those of the rows shown and those of
\* the rows stored.
KnownIds(rows, dbRows) == Ids(rows) \cup Ids(dbRows)

Find(rows, id) == rows[CHOOSE k \in 1..Len(rows) : rows[k].id = id]

\* The dependency list of the goal completion effect.
EffectDeps(u, rs, gs) == <<Len(rs), Len(gs), u>>

\* checkGoalCompletions up to its first await, on the state of the render
\* it is called from: the pending list with the call it starts, if any.
CheckGoalCompletionsStart(u, rs, gs, pend) ==
    IF u = NoUser \/ Len(gs) = 0 \/ Len(rs) = 0 THEN pend
    ELSE LET goalsToUpdate == CheckAllGoalsForCompletion(gs, rs, now)
         IN  IF Len(goalsToUpdate) > 0
                THEN Append(pend,
                        [NewOp("checkGoalCompletions", u, 0, NoArg)
                            EXCEPT !.rows = goalsToUpdate, !.todo = goalsToUpdate])
                ELSE pend

\* The render after a state update: the effect of lines 42-46 runs when its
\* dependencies differ from those of the previous render.
AfterRender(u, rs, gs, pend) ==
    IF /\ EffectDeps(u, rs, gs) # EffectDeps(currentUserId, runs, goals)
       /\ u # NoUser /\ Len(rs) > 0 /\ Len(gs) > 0
    THEN CheckGoalCompletionsStart(u, rs, gs, pend)
    ELSE pend

InitialDbRuns  == {<<>>, <<Row(1, 1, [distance |-> 1500, pace |-> 900])>>}
InitialDbGoals ==
    {<<>>, <<Row(2, 1, [target_date |-> 1, target_distance |-> 3000,
                        target_pace |-> Null, completed |-> FALSE])>>}

Init ==
    /\ currentUserId = NoUser
    /\ runs = <<>>
    /\ goals = <<>>
    /\ dbRuns \in InitialDbRuns
    /\ dbGoals \in InitialDbGoals
    /\ pending = <<>>
    /\ nextId = 3
    /\ opsLeft = MaxOps
    /\ lastStep = NoStep
    /\ now = ParseISO(1) + 1
    /\ GoalIdle
    /\ BatchIdle
    /\ ImportIdle
    /\ SumIdle
    /\ ParseIdle

\* `if (!currentUserId) return;` at the head of a handler: the request is
\* issued for a logged-in user only.
IssueCall_Always(u, pend, op) == Append(pend, op)

IssueCall(u, pend, op) == IF u = NoUser THEN pend ELSE Append(pend, op)

\* fetchRuns and fetchGoals up to their await.
FetchRunsStart(u, pend) == IssueCall(u, pend, NewOp("fetchRuns", u, 0, NoArg))

FetchGoalsStart(u, pend) == IssueCall(u, pend, NewOp("fetchGoals", u, 0, NoArg))

\* App.tsx: the session's user becomes the prop currentUserId; the effect of
\* lines 31-39 starts fetchRuns and fetchGoals.
Login(u) ==
    /\ currentUserId = NoUser
    /\ currentUserId' = u
    /\ pending' = AfterRender(u, runs, goals,
                     FetchGoalsStart(u, FetchRunsStart(u, pending)))
    /\ lastStep' = [NoStep EXCEPT !.step = "login", !.uid = u]
    /\ UNCHANGED <<runs, goals, dbRuns, dbGoals, nextId, opsLeft, now,
                   goalVars, batchVars, importVars, sumVars,
                   parseVars>>

\* The prop becomes null; the effect of lines 31-39 clears both lists.
Logout ==
    /\ opsLeft > 0
    /\ currentUserId # NoUser
    /\ currentUserId' = NoUser
    /\ runs' = <<>>
    /\ goals' = <<>>
    /\ opsLeft' = opsLeft - 1
    /\ lastStep' = [NoStep EXCEPT !.step = "logout"]
    /\ UNCHANGED <<pending, dbRuns, dbGoals, nextId, now, goalVars, batchVars, importVars, sumVars,
                   parseVars>>

\* A call of a handler, up to its first await or its early return.
StartCall(op) ==
    /\ opsLeft > 0
    /\ Len(pending) < MaxPending
    /\ pending' = IssueCall(currentUserId, pending, op)
    /\ opsLeft' = opsLeft - 1
    /\ lastStep' = [NoStep EXCEPT !.step = "call", !.kind = op.kind,
                                  !.uid = currentUserId]
    /\ UNCHANGED <<currentUserId, runs, goals, dbRuns, dbGoals, nextId, now,
                   goalVars, batchVars, importVars, sumVars,
                   parseVars>>

AddRun(run) == StartCall(NewOp("addRun", currentUserId, 0, run))

UpdateRun(id, runUpdates) ==
    StartCall(NewOp("updateRun", currentUserId, id, runUpdates))

DeleteRun(id) == StartCall(NewOp("deleteRun", currentUserId, id, NoArg))

AddGoal(g) == StartCall(NewOp("addGoal", currentUserId, 0, g))

UpdateGoal(id, goalUpdates) ==
    StartCall(NewOp("updateGoal", currentUserId, id, goalUpdates))

DeleteGoal(id) == StartCall(NewOp("deleteGoal", currentUserId, id, NoArg))

\* goals.find on the list of the render the handler belongs to; the handler
\* returns when the goal is not in it.
ToggleGoalCompletion(id) ==
    IF id \in Ids(goals)
        THEN StartCall(NewOp("toggleGoalCompletion", currentUserId, id,
                             [completed |-> ~Find(goals, id).completed]))
        ELSE /\ opsLeft > 0
             /\ opsLeft' = opsLeft - 1
             /\ lastStep' = [NoStep EXCEPT !.step = "call",
                                           !.kind = "toggleGoalCompletion",
                                           !.uid = currentUserId]
             /\ UNCHANGED <<currentUserId, runs, goals, dbRuns, dbGoals, pending,
                            nextId, now, goalVars, batchVars, importVars,
                            sumVars, parseVars>>

DbRunsAfter(op) ==
    CASE op.kind = "addRun"    -> Append(dbRuns, Row(nextId, op.uid, op.arg))
      [] op.kind = "updateRun" -> UpdateRows(dbRuns, op.id, op.uid, op.arg)
      [] op.kind = "deleteRun" -> DeleteRows(dbRuns, op.id, op.uid)
      [] OTHER                 -> dbRuns

DbGoalsAfter(op) ==
    CASE op.kind = "addGoal"    -> Append(dbGoals, Row(nextId, op.uid, op.arg))
      [] op.kind = "updateGoal" -> UpdateRows(dbGoals, op.id, op.uid, op.arg)
      [] op.kind = "deleteGoal" -> DeleteRows(dbGoals, op.id, op.uid)
      [] op.kind = "toggleGoalCompletion"
                                -> UpdateRows(dbGoals, op.id, op.uid, op.arg)
      [] op.kind = "checkGoalCompletions"
                                -> UpdateRows(dbGoals, Head(op.todo).id, op.uid,
                                              [completed |-> TRUE])
      [] OTHER                  -> dbGoals

Response(op) ==
    CASE op.kind \in {"addRun", "addGoal"}
                                -> [op EXCEPT !.data = Row(nextId, op.uid, op.arg)]
      [] op.kind = "fetchRuns"  -> [op EXCEPT !.rows = RowsOf(dbRuns, op.uid)]
      [] op.kind = "fetchGoals" -> [op EXCEPT !.rows =
                                        OrderByTargetDate(RowsOf(dbGoals, op.uid))]
      [] OTHER                  -> op

\* The persistence layer executes the request of call i and answers it,
\* with an error (nothing changed) or with the result.
DbExec(i) ==
    /\ i \in 1..Len(pending)
    /\ pending[i].stage = "sent"
    /\ \E ok \in BOOLEAN :
        LET op == pending[i]
            answered == IF ok THEN Response(op) ELSE op
        IN  /\ pending' = [pending EXCEPT
                              ![i] = [answered EXCEPT !.stage = "responded", !.ok = ok]]
            /\ dbRuns' = IF ok THEN DbRunsAfter(op) ELSE dbRuns
            /\ dbGoals' = IF ok THEN DbGoalsAfter(op) ELSE dbGoals
            /\ nextId' = IF ok /\ op.kind \in {"addRun", "addGoal"}
                            THEN nextId + 1 ELSE nextId
    /\ lastStep' = [NoStep EXCEPT !.step = "exec", !.kind = pending[i].kind,
                                  !.uid = pending[i].uid,
                                  !.ok = pending'[i].ok]
    /\ UNCHANGED <<currentUserId, runs, goals, opsLeft, now, goalVars, batchVars, importVars, sumVars,
                   parseVars>>

RunsAfter_IgnoreError(op) ==
    CASE op.kind = "fetchRuns" -> op.rows
      [] op.kind = "addRun"    -> <<op.data>> \o runs
      [] op.kind = "updateRun" -> Merge(runs, op.id, op.arg)
      [] op.kind = "deleteRun" -> SelectSeq(runs, LAMBDA r : r.id # op.id)
      [] OTHER                 -> runs

\* setRuns of the continuation of a call; an error response returns early.
RunsAfter(op) ==
    IF ~op.ok THEN runs
    ELSE CASE op.kind = "fetchRuns" -> op.rows
           [] op.kind = "addRun"    -> <<op.data>> \o runs
           [] op.kind = "updateRun" -> Merge(runs, op.id, op.arg)
           [] op.kind = "deleteRun" -> SelectSeq(runs, LAMBDA r : r.id # op.id)
           [] OTHER                 -> runs

\* prev.map(g => g.id === id ? { ...g, completed: !g.completed } : g)
ToggleLocal(prev, op) ==
    [k \in 1..Len(prev) |->
        IF prev[k].id = op.id THEN [prev[k] EXCEPT !.completed = ~prev[k].completed]
        ELSE prev[k]]

MarkEvaluated_Toggling(prev, goalsToUpdate) ==
    [k \in 1..Len(prev) |->
        IF prev[k].id \in Ids(goalsToUpdate)
            THEN [prev[k] EXCEPT !.completed = ~prev[k].completed]
            ELSE prev[k]]

\* The local update that ends checkGoalCompletions (lines 107-112).
MarkEvaluated(prev, goalsToUpdate) == MarkCompleted(prev, goalsToUpdate)

\* setGoals of the continuation of a call.  checkGoalCompletions logs an
\* error and goes on; the other handlers return early on an error.
GoalsAfter(op) ==
    IF op.kind = "checkGoalCompletions"
        THEN IF Len(op.todo) = 1 THEN MarkEvaluated(goals, op.rows) ELSE goals
    ELSE IF ~op.ok THEN goals
    ELSE CASE op.kind = "fetchGoals" -> op.rows
           [] op.kind = "addGoal"    -> <<op.data>> \o goals
           [] op.kind = "updateGoal" -> Merge(goals, op.id, op.arg)
           [] op.kind = "deleteGoal" -> SelectSeq(goals, LAMBDA g : g.id # op.id)
           [] op.kind = "toggleGoalCompletion" -> ToggleLocal(goals, op)
           [] OTHER                  -> goals

\* checkGoalCompletions sends the next update of its loop; every other
\* continuation ends its call.
PendingAfter(i) ==
    LET op == pending[i]
    IN  IF op.kind = "checkGoalCompletions" /\ Len(op.todo) > 1
            THEN [pending EXCEPT ![i] = [op EXCEPT !.todo = Tail(op.todo),
                                                   !.stage = "sent"]]
            ELSE RemoveAt(pending, i)

\* The continuation of call i runs on the response.
Resume(i) ==
    /\ i \in 1..Len(pending)
    /\ pending[i].stage = "responded"
    /\ runs' = RunsAfter(pending[i])
    /\ goals' = GoalsAfter(pending[i])
    /\ pending' = AfterRender(currentUserId, runs', goals', PendingAfter(i))
    /\ lastStep' = [NoStep EXCEPT !.step = "resume", !.kind = pending[i].kind,
                                  !.uid = pending[i].uid,
                                  !.ok = pending[i].ok]
    /\ UNCHANGED <<currentUserId, dbRuns, dbGoals, nextId, opsLeft, now,
                   goalVars, batchVars, importVars, sumVars,
                   parseVars>>

Next ==
    \/ \E u \in Users : Login(u)
    \/ Logout
    \/ \E run \in RunForms : AddRun(run)
    \/ \E id \in KnownIds(runs, dbRuns), runUpdates \in RunForms :
            UpdateRun(id, runUpdates)
    \/ \E id \in KnownIds(runs, dbRuns) : DeleteRun(id)
    \/ \E g \in GoalForms : AddGoal(g)
    \/ \E id \in KnownIds(goals, dbGoals), goalUpdates \in GoalForms :
            UpdateGoal(id, goalUpdates)
    \/ \E id \in KnownIds(goals, dbGoals) : DeleteGoal(id)
    \/ \E id \in KnownIds(goals, dbGoals) : ToggleGoalCompletion(id)
    \/ \E i \in 1..Len(pending) : DbExec(i)
    \/ \E i \in 1..Len(pending) : Resume(i)

Spec == Init /\ [][Next]_vars

\* The same provider used through toggleGoalCompletion only.
NextToggle ==
    \/ \E u \in Users : Login(u)
    \/ \E id \in KnownIds(goals, dbGoals) : ToggleGoalCompletion(id)
    \/ \E i \in 1..Len(pending) : DbExec(i)
    \/ \E i \in 1..Len(pending) : Resume(i)

SpecToggle == Init /\ [][NextToggle]_vars

-----------------------------------------------------------------------------
(* Specification SpecImport: FileImport.processFiles on one batch of files. *)
(* A file name is the sequence of its characters.  What the environment     *)
(* does with a file is part of the input: whether reading it succeeds, and  *)
(* the records the parser finds in its content, each with the outcome of    *)
(* the addRun call made for it.  A step is the code between two awaits.     *)

FileNames ==
    {<<"a", ".", "T", "C", "X">>, <<"g", "p", "x">>, <<"b", ".", "c", "s", "v">>,
     <<"c", ".", "f", "i", "t">>, <<"d">>}

\* addRun: the insert succeeds, the insert answers with an error (logged,
\* addRun returns), or the awaited call throws.
AddRunOutcomes == {"ok", "error", "throw"}

ImportedRun == [distance |-> 3100, pace |-> 900]

IndexOfDot(name) ==
    IF \E k \in 1..Len(name) : name[k] = "."
        THEN CHOOSE k \in 1..Len(name) :
                name[k] = "." /\ \A m \in 1..(k - 1) : name[m] # "."
        ELSE 0

\* name.split('.')
RECURSIVE Split(_)
Split(name) ==
    IF IndexOfDot(name) = 0 THEN <<name>>
    ELSE <<SubSeq(name, 1, IndexOfDot(name) - 1)>>
            \o Split(SubSeq(name, IndexOfDot(name) + 1, Len(name)))

Pop(parts) == parts[Len(parts)]

LowerChar(c) ==
    LET upper == <<"A", "B", "C", "D", "E", "F", "G", "H", "I", "J", "K", "L", "M",
                   "N", "O", "P", "Q", "R", "S", "T", "U", "V", "W", "X", "Y", "Z">>
        lower == <<"a", "b", "c", "d", "e", "f", "g", "h", "i", "j", "k", "l", "m",
                   "n", "o", "p", "q", "r", "s", "t", "u", "v", "w", "x", "y", "z">>
    IN  IF \E k \in 1..26 : upper[k] = c
            THEN lower[CHOOSE k \in 1..26 : upper[k] = c]
            ELSE c

ToLowerCase(str) == [k \in 1..Len(str) |-> LowerChar(str[k])]

\* file.name.split('.').pop()?.toLowerCase()
FileExtension(name) == ToLowerCase(Pop(Split(name)))

SupportedExtensions ==
    {<<"t", "c", "x">>, <<"g", "p", "x">>, <<"c", "s", "v">>}

IsSupported(name) == FileExtension(name) \in SupportedExtensions

IsCsv(name) == FileExtension(name) = <<"c", "s", "v">>

UnsupportedResult(name) ==
    [success |-> FALSE, fileName |-> name,
     message |-> <<"Unsupported file format. Please use TCX, GPX, or CSV files.">>,
     runCount |-> Null]

CsvResult(name, successCount, errorCount) ==
    [success |-> successCount > 0, fileName |-> name,
     message |-> IF errorCount > 0
                    THEN <<"Imported", successCount, "runs successfully",
                           errorCount, "failed">>
                    ELSE <<"Imported", successCount, "runs successfully">>,
     runCount |-> successCount]

NoCsvDataResult(name) ==
    [success |-> FALSE, fileName |-> name,
     message |-> <<"No valid run data found in CSV file.">>, runCount |-> Null]

RunImportedResult(name, runData) ==
    [success |-> TRUE, fileName |-> name,
     message |-> <<"Successfully imported run", runData.distance>>,
     runCount |-> Null]

NotParsedResult(name) ==
    [success |-> FALSE, fileName |-> name,
     message |-> <<"Could not parse run data from file.">>, runCount |-> Null]

CatchResult(name, message) ==
    [success |-> FALSE, fileName |-> name,
     message |-> <<"Error processing file", message>>, runCount |-> Null]

PushUnsupported_Skip(newResults, name) == newResults

\* lines 59-66: the result of a file the extension test refuses
PushUnsupported(newResults, name) == Append(newResults, UnsupportedResult(name))

Push(st, result) == [st EXCEPT !.newResults = Append(@, result)]

\* The for loop goes on to the file after st.idx: files the extension test
\* refuses get their result at once, the first other file is read (its
\* content is awaited); after the last file processFiles ends.
RECURSIVE Advance(_, _)
Advance(st, fs) ==
    LET n == st.idx + 1
    IN  IF n > Len(fs) THEN [st EXCEPT !.idx = n, !.pc = "done"]
        ELSE IF ~IsSupported(fs[n].name)
            THEN Advance([st EXCEPT !.idx = n,
                             !.newResults = PushUnsupported(@, fs[n].name)], fs)
        ELSE [st EXCEPT !.idx = n, !.pc = "read",
                        !.log = Append(@, <<"read", n>>)]

\* An exception thrown in the try block leaves processFiles.
OnThrow_Propagate(st, fs, message) == [st EXCEPT !.pc = "thrown"]

\* lines 121-127: the catch block, then the next file
OnThrow(st, fs, message) ==
    Advance(Push(st, CatchResult(fs[st.idx].name, message)), fs)

Raise(st, where) == [st EXCEPT !.raised = @ \cup {<<st.idx, where>>}]

CallAddRun(st) == [st EXCEPT !.pc = "persist", !.log = Append(@, <<"addRun", st.idx>>)]

\* lines 50-53 and the loop up to its first await
ProcessFilesStart(fs) == Advance(NoImport, fs)

\* line 68 settles; on a content the parser is called (lines 72, 103)
ReadSettles(st, fs) ==
    IF fs[st.idx].readOk
        THEN [st EXCEPT !.pc = "parse", !.log = Append(@, <<"parse", st.idx>>)]
        ELSE OnThrow(Raise(st, "read"), fs, "Failed to read file")

\* lines 74-77 and 94-100, 105-106 and 113-119: the parser's value
ParseResumes(st, fs) ==
    LET file == fs[st.idx]
    IN  IF Len(file.recs) > 0
            THEN CallAddRun([st EXCEPT !.recIdx = 1, !.successCount = 0,
                                       !.errorCount = 0])
        ELSE IF IsCsv(file.name)
            THEN Advance(Push(st, NoCsvDataResult(file.name)), fs)
        ELSE Advance(Push(st, NotParsedResult(file.name)), fs)

\* lines 117-131 of AppContext.tsx as processFiles sees them
AddRunOutcome(uid, file, recIdx) ==
    IF uid = NoUser THEN "returned" ELSE file.recs[recIdx]

\* lines 80-93 and 106-112: the awaited addRun settles
AddRunSettles(st, fs, outcome) ==
    LET file == fs[st.idx]
        counted == IF outcome = "throw"
                      THEN [Raise(st, "persist") EXCEPT !.errorCount = @ + 1]
                      ELSE [st EXCEPT !.successCount = @ + 1]
    IN  IF IsCsv(file.name)
            THEN IF st.recIdx < Len(file.recs)
                    THEN CallAddRun([counted EXCEPT !.recIdx = @ + 1])
                    ELSE Advance(Push(counted,
                            CsvResult(file.name, counted.successCount,
                                      counted.errorCount)), fs)
        ELSE IF outcome = "throw"
            THEN OnThrow(Raise(st, "persist"), fs, "addRun failed")
        ELSE Advance(Push(st, RunImportedResult(file.name, ImportedRun)), fs)

UnsupportedFiles ==
    [name : {n \in FileNames : ~IsSupported(n)}, readOk : {TRUE}, recs : {<<>>}]

UnreadableFiles ==
    [name : {n \in FileNames : IsSupported(n)}, readOk : {FALSE}, recs : {<<>>}]

CsvFiles ==
    [name : {n \in FileNames : IsCsv(n)}, readOk : {TRUE},
     recs : SeqsUpTo(AddRunOutcomes, MaxRecs)]

SingleRunFiles ==
    [name : {n \in FileNames : IsSupported(n) /\ ~IsCsv(n)}, readOk : {TRUE},
     recs : SeqsUpTo(AddRunOutcomes, 1)]

FileDomain == UnsupportedFiles \cup UnreadableFiles \cup CsvFiles \cup SingleRunFiles

InitImport ==
    /\ files \in SeqsUpTo(FileDomain, MaxFiles)
    /\ imp = NoImport
    /\ results = <<>>
    /\ isProcessing = FALSE
    /\ currentUserId \in Users
    /\ runs = <<>> /\ dbRuns = <<>> /\ nextId = 1
    /\ goals = <<>> /\ dbGoals = <<>> /\ pending = <<>> /\ opsLeft = 0
    /\ lastStep = NoStep
    /\ now = ParseISO(1)
    /\ GoalIdle
    /\ BatchIdle
    /\ SumIdle
    /\ ParseIdle

\* setResults(newResults); setIsProcessing(false) when the step ends the loop
Rendered(st) ==
    /\ results' = (IF st.pc = "done" THEN st.newResults ELSE results)
    /\ isProcessing' = (IF st.pc = "done" THEN FALSE ELSE isProcessing)

\* handleDrop / handleFileSelect: the drop zone and the button are disabled
\* while isProcessing.
ProcessFiles ==
    /\ imp.pc = "idle" /\ ~isProcessing
    /\ imp' = ProcessFilesStart(files)
    /\ results' = (IF imp'.pc = "done" THEN imp'.newResults ELSE <<>>)
    /\ isProcessing' = (imp'.pc # "done")
    /\ UNCHANGED <<files, appVars, now, goalVars, batchVars, sumVars,
                   parseVars>>

ReadFileContent ==
    /\ imp.pc = "read"
    /\ imp' = ReadSettles(imp, files)
    /\ Rendered(imp')
    /\ UNCHANGED <<files, appVars, now, goalVars, batchVars, sumVars,
                   parseVars>>

ParseFile ==
    /\ imp.pc = "parse"
    /\ imp' = ParseResumes(imp, files)
    /\ Rendered(imp')
    /\ UNCHANGED <<files, appVars, now, goalVars, batchVars, sumVars,
                   parseVars>>

ImportAddRun ==
    /\ imp.pc = "persist"
    /\ LET outcome == AddRunOutcome(currentUserId, files[imp.idx], imp.recIdx)
           row == Row(nextId, currentUserId, ImportedRun)
       IN  /\ imp' = AddRunSettles(imp, files, outcome)
           /\ dbRuns' = (IF outcome = "ok" THEN Append(dbRuns, row) ELSE dbRuns)
           /\ runs' = (IF outcome = "ok" THEN <<row>> \o runs ELSE runs)
           /\ nextId' = (IF outcome = "ok" THEN nextId + 1 ELSE nextId)
    /\ Rendered(imp')
    /\ UNCHANGED <<files, currentUserId, goals, dbGoals, pending, opsLeft, lastStep, now,
                   goalVars, batchVars, sumVars,
                   parseVars>>

NextImport == ProcessFiles \/ ReadFileContent \/ ParseFile \/ ImportAddRun

SpecImport == InitImport /\ [][NextImport]_vars

-----------------------------------------------------------------------------
(* utils/garminParser.ts: text and numbers *)

\* Texts are sequences of characters. Numbers that come out of a text are
\* integers in a unit the operator names; NaN is a value no text parses to.
NaN == -2147483647

DigitChars == {"0", "1", "2", "3", "4", "5", "6", "7", "8", "9"}

\* str.includes(sub)
Includes(str, sub) ==
    \E k \in 0..(Len(str) - Len(sub)) : SubSeq(str, k + 1, k + Len(sub)) = sub

\* str.split(sep)
RECURSIVE SplitOn(_, _)
SplitOn(str, sep) ==
    IF \A k \in 1..Len(str) : str[k] # sep THEN <<str>>
    ELSE LET at == CHOOSE k \in 1..Len(str) :
                        str[k] = sep /\ \A m \in 1..(k - 1) : str[m] # sep
         IN  <<SubSeq(str, 1, at - 1)>> \o SplitOn(SubSeq(str, at + 1, Len(str)), sep)

\* str.trim()
Trim(str) ==
    LET inked == {k \in 1..Len(str) : str[k] # " "}
    IN  IF inked = {} THEN <<>>
        ELSE SubSeq(str, CHOOSE k \in inked : \A m \in inked : k <= m,
                         CHOOSE k \in inked : \A m \in inked : k >= m)

\* str.replace(/[^...]/g, ''): the characters of str that are in chars
Keep(str, chars) == SelectSeq(str, LAMBDA c : c \in chars)

\* parseInt of a text of digits
RECURSIVE ParseInt(_)
ParseInt(digits) ==
    IF digits = <<>> THEN NaN
    ELSE LET last == CHOOSE v \in 0..9 : ToString(v) = digits[Len(digits)]
         IN  IF Len(digits) = 1 THEN last
             ELSE 10 * ParseInt(SubSeq(digits, 1, Len(digits) - 1)) + last

\* parseFloat, in thousandths: the longest prefix of the trimmed text that is
\* a decimal literal (sign, digits, point, digits; no exponent), NaN if there
\* is none. Digits after the third decimal are dropped.
ParseFloat(str) ==
    LET text     == Trim(str)
        neg      == text # <<>> /\ text[1] = "-"
        body     == IF neg THEN Tail(text) ELSE text
        digitsOf(u) ==
            SubSeq(u, 1, CHOOSE n \in 0..Len(u) :
                            /\ \A k \in 1..n : u[k] \in DigitChars
                            /\ n = Len(u) \/ u[n + 1] \notin DigitChars)
        whole    == digitsOf(body)
        rest     == SubSeq(body, Len(whole) + 1, Len(body))
        fraction == IF rest # <<>> /\ rest[1] = "." THEN digitsOf(Tail(rest)) ELSE <<>>
        abs      == (IF whole = <<>> THEN 0 ELSE ParseInt(whole)) * 1000
                        + ParseInt(SubSeq(fraction \o <<"0", "0", "0">>, 1, 3))
    IN  IF whole = <<>> /\ fraction = <<>> THEN NaN
        ELSE IF neg THEN 0 - abs ELSE abs

\* Math.max(a, b, c)
Max3(a, b, c) == CHOOSE v \in {a, b, c} : \A w \in {a, b, c} : v >= w

\* x * 0.621371, in thousandths of the unit of x
KmToMiles(x) == x * 621 + (x * 371) \div 1000

\* Math.round(x * 100) / 100 in hundredths, for x given in units of 1/per
\* (per a multiple of 200)
RoundTo2(x, per) == IF x = NaN THEN NaN ELSE (x + per \div 200) \div (per \div 100)

-----------------------------------------------------------------------------
(* utils/garminParser.ts: parseCSVFile *)

\* What a parser returns: null, or the run records.
ParsedNull == [outcome |-> "null", runs |-> <<>>]

ParsedRuns(rs) == [outcome |-> "runs", runs |-> rs]

\* Index of the first header that contains one of the names, tried in order
\* and compared in lower case; 0 where the code has -1.
FindColumnIndex(headers, possibleNames) ==
    LET matching(name) ==
            {k \in 1..Len(headers) :
                Includes(ToLowerCase(headers[k]), ToLowerCase(name))}
        found == {n \in 1..Len(possibleNames) : matching(possibleNames[n]) # {}}
    IN  IF found = {} THEN 0
        ELSE LET first == CHOOSE n \in found : \A m \in found : n <= m
             IN  CHOOSE k \in matching(possibleNames[first]) :
                    \A m \in matching(possibleNames[first]) : k <= m

RECURSIVE ScanCSVLine_NoQuotes(_, _, _, _)
ScanCSVLine_NoQuotes(rest, result, current, inQuotes) ==
    IF rest = <<>> THEN Append(result, Trim(current))
    ELSE IF Head(rest) = "\"" THEN ScanCSVLine_NoQuotes(Tail(rest), result, current, inQuotes)
    ELSE IF Head(rest) = ","
        THEN ScanCSVLine_NoQuotes(Tail(rest), Append(result, Trim(current)), <<>>, inQuotes)
    ELSE ScanCSVLine_NoQuotes(Tail(rest), result, Append(current, Head(rest)), inQuotes)

RECURSIVE ScanCSVLine(_, _, _, _)
ScanCSVLine(rest, result, current, inQuotes) ==
    IF rest = <<>> THEN Append(result, Trim(current))
    ELSE IF Head(rest) = "\"" THEN ScanCSVLine(Tail(rest), result, current, ~inQuotes)
    ELSE IF Head(rest) = "," /\ ~inQuotes
        THEN ScanCSVLine(Tail(rest), Append(result, Trim(current)), <<>>, inQuotes)
    ELSE ScanCSVLine(Tail(rest), result, Append(current, Head(rest)), inQuotes)

ParseCSVLine(line) == ScanCSVLine(line, <<>>, <<>>, FALSE)

InvalidNumber_NaNOnly(x) == x = NaN

\* isNaN(x) || x <= 0
InvalidNumber(x) == x = NaN \/ x <= 0

\* The Date a cell parses to, as the number yyyymmdd that format(date,
\* 'yyyy-MM-dd') spells, in a sequence that is empty for an Invalid Date.
\* A cell with a slash goes through date-fns parse 'M/d/yyyy' in local time;
\* any other cell through new Date(cell), which reads a yyyy-mm-dd text as
\* midnight UTC: west of Greenwich that is the evening before. Cells that are
\* neither are taken to be invalid.
ParseDate(dateStr, west) ==
    LET number(p)    == IF p # <<>> /\ \A k \in 1..Len(p) : p[k] \in DigitChars
                            THEN ParseInt(p) ELSE NaN
        daysIn(m, y) == IF m \in {4, 6, 9, 11} THEN 30
                        ELSE IF m # 2 THEN 31
                        ELSE IF y % 4 = 0 /\ (y % 100 # 0 \/ y % 400 = 0) THEN 29
                        ELSE 28
        valid(y, m, d) == /\ NaN \notin {y, m, d}
                          /\ m \in 1..12
                          /\ d \in 1..daysIn(m, y)
        spell(y, m, d) == y * 10000 + m * 100 + d
        slashed == SplitOn(dateStr, "/")
        dashed  == SplitOn(dateStr, "-")
    IN  IF Includes(dateStr, <<"/">>)
            THEN IF /\ Len(slashed) = 3
                    /\ valid(number(slashed[3]), number(slashed[1]), number(slashed[2]))
                    THEN <<spell(number(slashed[3]), number(slashed[1]), number(slashed[2]))>>
                    ELSE <<>>
        ELSE IF /\ Len(dashed) = 3
                /\ Len(dashed[1]) = 4 /\ Len(dashed[2]) = 2 /\ Len(dashed[3]) = 2
                /\ valid(number(dashed[1]), number(dashed[2]), number(dashed[3]))
            THEN LET y == number(dashed[1])
                     m == number(dashed[2])
                     d == number(dashed[3])
                 IN  IF ~west THEN <<spell(y, m, d)>>
                     ELSE IF d > 1 THEN <<spell(y, m, d - 1)>>
                     ELSE IF m > 1 THEN <<spell(y, m - 1, daysIn(m - 1, y))>>
                     ELSE <<spell(y - 1, 12, 31)>>
        ELSE <<>>

\* Minutes a time cell stands for, in 1/6000 of a minute; NaN where the code
\* gets NaN or skips the row for the number of parts.
ParseDuration(timeStr) ==
    LET parts  == SplitOn(timeStr, ":")
        part(k) == ParseInt(Keep(parts[k], DigitChars))
    IN  IF Includes(timeStr, <<":">>)
            THEN IF Len(parts) = 3
                    THEN IF NaN \in {part(1), part(2), part(3)} THEN NaN
                         ELSE part(1) * 360000 + part(2) * 6000 + part(3) * 100
                 ELSE IF Len(parts) = 2
                    THEN IF NaN \in {part(1), part(2)} THEN NaN
                         ELSE part(1) * 6000 + part(2) * 100
                 ELSE NaN
        ELSE LET minutes == ParseFloat(Keep(timeStr, DigitChars \cup {".", "-"}))
             IN  IF minutes = NaN THEN NaN ELSE minutes * 6

\* One turn of the loop over the data lines: the record the line adds to
\* runs, or nothing. cols holds the column indices found in the header.
ParseCSVRow(line, cols, west) ==
    LET values       == ParseCSVLine(line)
        cell(k)      == IF k \in 1..Len(values) THEN values[k] ELSE <<>>
        activityType == IF cols.activityType # 0
                            THEN ToLowerCase(cell(cols.activityType)) ELSE <<>>
        dateStr      == cell(cols.date)
        distanceStr  == cell(cols.distance)
        timeStr      == cell(cols.time)
        parsedDate   == ParseDate(dateStr, west)
        \* miles, in thousandths as read and in millionths after conversion
        read         == ParseFloat(Keep(distanceStr, DigitChars \cup {".", "-"}))
        distance     == IF read > 50000 THEN KmToMiles(read) ELSE read * 1000
        durationInMinutes == ParseDuration(timeStr)
        title        == IF cols.title # 0 THEN cell(cols.title) ELSE <<>>
        paceStr      == cell(cols.pace)
        paceParts    == SplitOn(paceStr, ":")
        min          == ParseInt(Keep(paceParts[1], DigitChars))
        sec          == ParseInt(Keep(paceParts[2], DigitChars))
        \* minutes per mile, in hundredths after Math.round(pace * 100) / 100;
        \* the calculated pace takes the distance to the nearest thousandth
        pace ==
            IF cols.pace # 0 /\ paceStr # <<>>
                THEN IF Includes(paceStr, <<":">>)
                        THEN IF NaN \in {min, sec} THEN NaN
                             ELSE RoundTo2(min * 6000 + sec * 100, 6000)
                        ELSE RoundTo2(ParseFloat(Keep(paceStr, DigitChars \cup {".", "-"})),
                                      1000)
                ELSE LET miles == (distance + 500) \div 1000
                     IN  IF miles = 0 THEN 0
                         ELSE (durationInMinutes * 100 + 3 * miles) \div (6 * miles)
    IN  IF Len(values) < Max3(cols.date, cols.distance, cols.time) THEN <<>>
        ELSE IF /\ activityType # <<>>
                /\ ~Includes(activityType, <<"r", "u", "n">>)
                /\ ~Includes(activityType, <<"j", "o", "g">>) THEN <<>>
        ELSE IF dateStr = <<>> \/ distanceStr = <<>> \/ timeStr = <<>> THEN <<>>
        ELSE IF parsedDate = <<>> THEN <<>>
        ELSE IF InvalidNumber(read) THEN <<>>
        ELSE IF InvalidNumber(durationInMinutes) THEN <<>>
        ELSE << [date     |-> parsedDate[1],
                 distance |-> RoundTo2(distance, 1000000),
                 duration |-> RoundTo2(durationInMinutes, 6000),
                 pace     |-> pace,
                 route    |-> IF title # <<>> THEN title
                              ELSE <<"Imported from CSV">>] >>

\* lines[0].split(',').map(h => h.trim().replace(/"/g, ''))
SplitHeader(line) ==
    LET split == SplitOn(line, ",")
    IN  [k \in 1..Len(split) |-> SelectSeq(Trim(split[k]), LAMBDA c : c # "\"")]

RECURSIVE ParseCSVRows(_, _, _)
ParseCSVRows(lines, cols, west) ==
    IF lines = <<>> THEN <<>>
    ELSE ParseCSVRow(Head(lines), cols, west) \o ParseCSVRows(Tail(lines), cols, west)

\* content is the text as its lines, content.split('\n').
ParseCSVFile(content, west) ==
    LET lines   == SelectSeq(content, LAMBDA line : Trim(line) # <<>>)
        headers == SplitHeader(lines[1])
        cols ==
            [date |-> FindColumnIndex(headers,
                        << <<"D", "a", "t", "e">>, <<"d", "a", "t", "e">> >>),
             distance |-> FindColumnIndex(headers,
                        << <<"D", "i", "s", "t", "a", "n", "c", "e">>,
                           <<"d", "i", "s", "t", "a", "n", "c", "e">> >>),
             time |-> FindColumnIndex(headers,
                        << <<"T", "i", "m", "e">>, <<"t", "i", "m", "e">>,
                           <<"M", "o", "v", "i", "n", "g", " ", "T", "i", "m", "e">>,
                           <<"E", "l", "a", "p", "s", "e", "d", " ", "T", "i", "m", "e">> >>),
             activityType |-> FindColumnIndex(headers,
                        << <<"A", "c", "t", "i", "v", "i", "t", "y", " ", "T", "y", "p", "e">>,
                           <<"a", "c", "t", "i", "v", "i", "t", "y", " ", "t", "y", "p", "e">>,
                           <<"S", "p", "o", "r", "t">>, <<"s", "p", "o", "r", "t">> >>),
             title |-> FindColumnIndex(headers,
                        << <<"T", "i", "t", "l", "e">>, <<"t", "i", "t", "l", "e">>,
                           <<"N", "a", "m", "e">>, <<"n", "a", "m", "e">> >>),
             pace |-> FindColumnIndex(headers,
                        << <<"A", "v", "g", " ", "P", "a", "c", "e">>,
                           <<"a", "v", "g", " ", "p", "a", "c", "e">>,
                           <<"A", "v", "e", "r", "a", "g", "e", " ", "P", "a", "c", "e">>,
                           <<"p", "a", "c", "e">> >>)]
        records == ParseCSVRows(Tail(lines), cols, west)
    IN  IF Len(lines) < 2 THEN ParsedNull                 \* thrown and caught
        ELSE IF cols.date = 0 \/ cols.distance = 0 \/ cols.time = 0
            THEN ParsedNull                               \* thrown and caught
        ELSE IF Len(records) > 0 THEN ParsedRuns(records) ELSE ParsedNull

\* Header lines and data lines the documents are made of.
CsvHeaders ==
    << \* Date,Distance,Time,Activity Type
       <<"D", "a", "t", "e", ",", "D", "i", "s", "t", "a", "n", "c", "e",
       ",", "T", "i", "m", "e", ",", "A", "c", "t", "i", "v", "i", "t",
       "y", " ", "T", "y", "p", "e">>,
       \* Date,Distance,Time
       <<"D", "a", "t", "e", ",", "D", "i", "s", "t", "a", "n", "c", "e",
       ",", "T", "i", "m", "e">>,
       \* Date,Distance
       <<"D", "a", "t", "e", ",", "D", "i", "s", "t", "a", "n", "c", "e">>,
       \* Activity Type,Date,Title,Distance,Time,Avg Pace
       <<"A", "c", "t", "i", "v", "i", "t", "y", " ", "T", "y", "p", "e",
       ",", "D", "a", "t", "e", ",", "T", "i", "t", "l", "e", ",", "D",
       "i", "s", "t", "a", "n", "c", "e", ",", "T", "i", "m", "e", ",",
       "A", "v", "g", " ", "P", "a", "c", "e">>,
       \* Date,"Distance, mi",Time
       <<"D", "a", "t", "e", ",", "\"", "D", "i", "s", "t", "a", "n", "c",
       "e", ",", " ", "m", "i", "\"", ",", "T", "i", "m", "e">> >>

CsvRows ==
    << \* 1: 1/1/2024,3.1,28:00,Running
       <<"1", "/", "1", "/", "2", "0", "2", "4", ",", "3", ".", "1", ",",
       "2", "8", ":", "0", "0", ",", "R", "u", "n", "n", "i", "n", "g">>,
       \* 2: 1/2/2024,-1,10:00,Running
       <<"1", "/", "2", "/", "2", "0", "2", "4", ",", "-", "1", ",", "1",
       "0", ":", "0", "0", ",", "R", "u", "n", "n", "i", "n", "g">>,
       \* 3: 2024-01-03,5 km,0:45:00,Trail Run
       <<"2", "0", "2", "4", "-", "0", "1", "-", "0", "3", ",", "5", " ",
       "k", "m", ",", "0", ":", "4", "5", ":", "0", "0", ",", "T", "r",
       "a", "i", "l", " ", "R", "u", "n">>,
       \* 4: 1/4/2024,10,50:00,Cycling
       <<"1", "/", "4", "/", "2", "0", "2", "4", ",", "1", "0", ",", "5",
       "0", ":", "0", "0", ",", "C", "y", "c", "l", "i", "n", "g">>,
       \* 5: 1/5/2024,3.1,28:00,
       <<"1", "/", "5", "/", "2", "0", "2", "4", ",", "3", ".", "1", ",",
       "2", "8", ":", "0", "0", ",">>,
       \* 6: 1/6/2024,0.004,28:00,Running
       <<"1", "/", "6", "/", "2", "0", "2", "4", ",", "0", ".", "0", "0",
       "4", ",", "2", "8", ":", "0", "0", ",", "R", "u", "n", "n", "i",
       "n", "g">>,
       \* 7: abc,3.1,28:00,Running
       <<"a", "b", "c", ",", "3", ".", "1", ",", "2", "8", ":", "0", "0",
       ",", "R", "u", "n", "n", "i", "n", "g">>,
       \* 8: 1/8/2024,3.1,abc,Running
       <<"1", "/", "8", "/", "2", "0", "2", "4", ",", "3", ".", "1", ",",
       "a", "b", "c", ",", "R", "u", "n", "n", "i", "n", "g">>,
       \* 9: 1/9/2024,3.1,0:00,Running
       <<"1", "/", "9", "/", "2", "0", "2", "4", ",", "3", ".", "1", ",",
       "0", ":", "0", "0", ",", "R", "u", "n", "n", "i", "n", "g">>,
       \* 10: (a blank line)
       <<" ">>,
       \* 11: 1/10/2024,80,60,jogging
       <<"1", "/", "1", "0", "/", "2", "0", "2", "4", ",", "8", "0", ",",
       "6", "0", ",", "j", "o", "g", "g", "i", "n", "g">>,
       \* 12: Running,1/1/2024,Morning,3.1,28:00,9:02
       <<"R", "u", "n", "n", "i", "n", "g", ",", "1", "/", "1", "/", "2",
       "0", "2", "4", ",", "M", "o", "r", "n", "i", "n", "g", ",", "3",
       ".", "1", ",", "2", "8", ":", "0", "0", ",", "9", ":", "0", "2">>,
       \* 13: 1/1/2024,3.1
       <<"1", "/", "1", "/", "2", "0", "2", "4", ",", "3", ".", "1">>,
       \* 14: Running,1/1/2024,Morning,3.1,28:00,--
       <<"R", "u", "n", "n", "i", "n", "g", ",", "1", "/", "1", "/", "2",
       "0", "2", "4", ",", "M", "o", "r", "n", "i", "n", "g", ",", "3",
       ".", "1", ",", "2", "8", ":", "0", "0", ",", "-", "-">>,
       \* 15: Running,1/1/2024,Morning,3.1,28:00,
       <<"R", "u", "n", "n", "i", "n", "g", ",", "1", "/", "1", "/", "2",
       "0", "2", "4", ",", "M", "o", "r", "n", "i", "n", "g", ",", "3",
       ".", "1", ",", "2", "8", ":", "0", "0", ",">>,
       \* 16: Running,1/1/2024,Morning,3.1,28:00,9.5
       <<"R", "u", "n", "n", "i", "n", "g", ",", "1", "/", "1", "/", "2",
       "0", "2", "4", ",", "M", "o", "r", "n", "i", "n", "g", ",", "3",
       ".", "1", ",", "2", "8", ":", "0", "0", ",", "9", ".", "5">>,
       \* 17: Running,1/1/2024,"Morning, easy",3.1,28:00,9:02
       <<"R", "u", "n", "n", "i", "n", "g", ",", "1", "/", "1", "/", "2",
       "0", "2", "4", ",", "\"", "M", "o", "r", "n", "i", "n", "g", ",",
       " ", "e", "a", "s", "y", "\"", ",", "3", ".", "1", ",", "2", "8",
       ":", "0", "0", ",", "9", ":", "0", "2">>,
       \* 18: 1/1/2024,3.1,28:00
       <<"1", "/", "1", "/", "2", "0", "2", "4", ",", "3", ".", "1", ",",
       "2", "8", ":", "0", "0">> >>

\* The data lines each header is combined with: the lines written for its
\* columns and one or two written for other columns.
CsvRowsFor(h) ==
    CASE h \in {1, 2, 3} -> 1..13
      [] h = 4 -> {1, 12, 14, 15, 16, 17}
      [] h = 5 -> {1, 18}

-----------------------------------------------------------------------------
(* utils/garminParser.ts: parseTCX, parseGPX *)

\* An XML document is given as what DOMParser makes of it. An optional
\* element or attribute is a sequence: empty when absent, else its text. A
\* time text is given as the Date it parses to: seconds, or NaN for an
\* Invalid Date.
Plus(x, y) == IF x = NaN \/ y = NaN THEN NaN ELSE x + y

\* parseFloat(text || '0') of an element's text or an attribute, in thousandths
NumberOf(element) ==
    IF element = <<>> \/ element[1] = <<>> THEN 0 ELSE ParseFloat(element[1])

\* calculatePace: duration / distance as a fraction, 0 for a zero distance
CalculatePace(distance, duration) ==
    IF distance = 0 THEN [num |-> 0, den |-> 1]
    ELSE IF distance = NaN \/ duration = NaN THEN [num |-> NaN, den |-> 1]
    ELSE [num |-> duration, den |-> distance]

RECURSIVE SumLaps(_)
SumLaps(laps) ==
    IF laps = <<>> THEN [distance |-> 0, time |-> 0]
    ELSE LET sofar == SumLaps(SubSeq(laps, 1, Len(laps) - 1))
             lap   == laps[Len(laps)]
         IN  IF lap.distance # <<>> /\ lap.time # <<>>
                THEN [distance |-> Plus(sofar.distance, NumberOf(lap.distance)),
                      time     |-> Plus(sofar.time, NumberOf(lap.time))]
                ELSE sofar

ParseTCX(xmlDoc) ==
    LET total == SumLaps(xmlDoc.laps)
        \* miles in 10^-9, from metres in thousandths; minutes from seconds
        distanceInMiles   == IF total.distance = NaN THEN NaN
                             ELSE KmToMiles(total.distance)
        durationInMinutes == total.time
    IN  IF ~xmlDoc.wellFormed THEN ParsedNull
        ELSE IF ~xmlDoc.activity THEN ParsedNull
        ELSE IF xmlDoc.startTime = <<>> THEN ParsedNull
        ELSE IF distanceInMiles = 0 \/ durationInMinutes = 0 THEN ParsedNull
        ELSE IF xmlDoc.startTime[1] = NaN THEN ParsedNull    \* format throws
        ELSE ParsedRuns(<< [date     |-> xmlDoc.startTime[1],
                            distance |-> RoundTo2(distanceInMiles, 1000000000),
                            duration |-> RoundTo2(durationInMinutes, 60000),
                            pace     |-> CalculatePace(distanceInMiles, durationInMinutes),
                            route    |-> IF xmlDoc.trackPoints > 0
                                            THEN <<"Imported from Garmin", xmlDoc.trackPoints>>
                                            ELSE <<>>] >>)

\* Kilometres in 10^-6 between two points of one meridian, degrees given in
\* thousandths: R * c with c the difference of latitude in radians.
HaversineDistance(lat1, lon1, lat2, lon2) ==
    IF NaN \in {lat1, lon1, lat2, lon2} THEN NaN
    ELSE (IF lat2 >= lat1 THEN lat2 - lat1 ELSE lat1 - lat2) * 111195

RECURSIVE SumSegments(_)
SumSegments(trackPoints) ==
    IF Len(trackPoints) < 2 THEN 0
    ELSE LET prevPoint == trackPoints[Len(trackPoints) - 1]
             currPoint == trackPoints[Len(trackPoints)]
         IN  Plus(SumSegments(SubSeq(trackPoints, 1, Len(trackPoints) - 1)),
                  HaversineDistance(NumberOf(prevPoint.lat), NumberOf(prevPoint.lon),
                                    NumberOf(currPoint.lat), NumberOf(currPoint.lon)))

ParseGPX(xmlDoc) ==
    LET trackPoints == xmlDoc.points
        firstPoint  == trackPoints[1]
        lastPoint   == trackPoints[Len(trackPoints)]
        startTime   == firstPoint.time[1]
        endTime     == lastPoint.time[1]
        \* minutes from seconds; miles in 10^-9
        durationInMinutes == IF startTime = NaN \/ endTime = NaN THEN NaN
                             ELSE (endTime - startTime) * 1000
        totalDistance     == SumSegments(trackPoints)
        distanceInMiles   == IF totalDistance = NaN THEN NaN
                             ELSE KmToMiles(totalDistance)
    IN  IF ~xmlDoc.wellFormed THEN ParsedNull
        ELSE IF ~xmlDoc.trk THEN ParsedNull
        ELSE IF Len(trackPoints) < 2 THEN ParsedNull
        ELSE IF firstPoint.time = <<>> \/ lastPoint.time = <<>> THEN ParsedNull
        ELSE IF distanceInMiles = 0 \/ durationInMinutes = 0 THEN ParsedNull
        ELSE IF startTime = NaN THEN ParsedNull               \* format throws
        ELSE ParsedRuns(<< [date     |-> startTime,
                            distance |-> RoundTo2(distanceInMiles, 1000000000),
                            duration |-> RoundTo2(durationInMinutes, 60000),
                            pace     |-> CalculatePace(distanceInMiles, durationInMinutes),
                            route    |-> IF xmlDoc.name # <<>> THEN xmlDoc.name
                                         ELSE <<"Imported from Garmin", Len(trackPoints)>>] >>)

-----------------------------------------------------------------------------
(* The parsers, each called once on a document *)

CsvDocs ==
    [kind : {"csv"}, west : BOOLEAN,
     lines : UNION {{<<CsvHeaders[h]>> \o [k \in DOMAIN rows |-> CsvRows[rows[k]]] :
                        rows \in SeqsUpTo(CsvRowsFor(h), MaxRows)} :
                    h \in DOMAIN CsvHeaders}]

\* Lines handed to parseCSVLine alone: every text of up to MaxLineLen
\* characters over a letter, a blank, the comma and the double quote.
LineChars == {"a", " ", ",", "\""}

LineDocs == [kind : {"line"}, text : SeqsUpTo(LineChars, MaxLineLen)]

LapTexts ==
    [distance : {<<>>, << <<"5">> >>, << <<"1", "0", "0", "0">> >>,
                 << <<"-", "1", "0", "0", "0">> >>, << <<"a", "b", "c">> >>},
     time     : {<< <<"6", "0", "0">> >>, << <<"0">> >>, << <<"-", "6", "0", "0">> >>,
                 << <<"a", "b", "c">> >>}]
        \cup {[distance |-> << <<"1", "0", "0", "0">> >>, time |-> <<>>]}

TcxDocs ==
    [kind : {"tcx"}, wellFormed : {TRUE}, activity : {TRUE}, startTime : {<<0>>},
     trackPoints : {0, 2}, laps : SeqsUpTo(LapTexts, MaxLaps)]
    \cup [kind : {"tcx"}, wellFormed : BOOLEAN, activity : BOOLEAN,
          startTime : {<<>>, <<0>>, <<NaN>>}, trackPoints : {0},
          laps : {<<[distance |-> << <<"1", "0", "0", "0">> >>,
                     time |-> << <<"6", "0", "0">> >>]>>}]

PointTexts ==
    [lat  : {<<>>, << <<"0", ".", "0", "0", "1">> >>, << <<"0", ".", "0", "0", "2">> >>},
     lon  : {<< <<"0">> >>},
     time : {<<>>, <<0>>, <<60>>, <<NaN>>}]

GpxDocs ==
    [kind : {"gpx"}, wellFormed : {TRUE}, trk : {TRUE},
     name : {<<>>, <<"L", "o", "o", "p">>}, points : SeqsUpTo(PointTexts, MaxPoints)]
    \cup [kind : {"gpx"}, wellFormed : BOOLEAN, trk : BOOLEAN, name : {<<>>},
          points : {<<[lat |-> << <<"0", ".", "0", "0", "1">> >>, lon |-> << <<"0">> >>,
                       time |-> <<0>>],
                      [lat |-> << <<"0", ".", "0", "0", "2">> >>, lon |-> << <<"0">> >>,
                       time |-> <<60>>]>>}]

InitParse ==
    /\ doc \in CsvDocs \cup TcxDocs \cup GpxDocs \cup LineDocs
    /\ parsed = NoDoc
    /\ pcP = "idle"
    /\ now = 0
    /\ GoalIdle
    /\ BatchIdle
    /\ AppIdle
    /\ ImportIdle
    /\ SumIdle

CallParseCSVFile ==
    /\ pcP = "idle"
    /\ doc.kind = "csv"
    /\ parsed' = ParseCSVFile(doc.lines, doc.west)
    /\ pcP' = "done"
    /\ UNCHANGED <<doc, now, goalVars, batchVars, appVars, importVars, sumVars>>

CallParseCSVLine ==
    /\ pcP = "idle"
    /\ doc.kind = "line"
    /\ parsed' = [outcome |-> "fields", runs |-> <<>>,
                  fields |-> ParseCSVLine(doc.text)]
    /\ pcP' = "done"
    /\ UNCHANGED <<doc, now, goalVars, batchVars, appVars, importVars, sumVars>>

\* parseGarminFile(content, fileType)
ParseGarminFile ==
    /\ pcP = "idle"
    /\ \/ doc.kind = "tcx" /\ parsed' = ParseTCX(doc)
       \/ doc.kind = "gpx" /\ parsed' = ParseGPX(doc)
    /\ pcP' = "done"
    /\ UNCHANGED <<doc, now, goalVars, batchVars, appVars, importVars, sumVars>>

NextParse == CallParseCSVFile \/ CallParseCSVLine \/ ParseGarminFile

SpecParse == InitParse /\ [][NextParse]_vars

-----------------------------------------------------------------------------
(* calculateTotalDistance on doubles, for a run list and a reordering of it *)

\* Distances as the database returns them: decimals, not all of two places.
SumDistances == {2500, 4020, 8462, 9763}

InitSum ==
    /\ sRuns \in SeqsUpTo([distance : SumDistances, pace : RunPaces], MaxSummands)
    /\ \E f \in Permutations(1..Len(sRuns)) : sPerm = [i \in 1..Len(sRuns) |-> sRuns[f[i]]]
    /\ sTotal = 0 /\ sPermTotal = 0 /\ pcS = "idle"
    /\ now = 0
    /\ GoalIdle
    /\ BatchIdle
    /\ AppIdle
    /\ ImportIdle
    /\ ParseIdle

CallCalculateTotalDistance ==
    /\ pcS = "idle"
    /\ sTotal' = CalculateTotalDistanceOfDoubles(sRuns)
    /\ sPermTotal' = CalculateTotalDistanceOfDoubles(sPerm)
    /\ pcS' = "done"
    /\ UNCHANGED <<sRuns, sPerm, now, goalVars, batchVars, appVars, importVars, parseVars>>

NextSum == CallCalculateTotalDistance

SpecSum == InitSum /\ [][NextSum]_vars

----------
(* Claims *)

TodayDay(t) == t \div TicksPerDay

\* C1: for a goal that is not yet completed, checkGoalCompletion returns
\* isCompleted = isAchieved AND isDateReached, where the date is reached from
\* the target day on: achieved before the target day is not completed, date
\* reached but not achieved is not completed, achieved with the date reached
\* is completed.
C1_HybridCompletion ==
    (pcG = "done" /\ ~goal.completed) =>
        /\ progress.isCompleted = (progress.isAchieved /\ progress.isDateReached)
        /\ progress.isDateReached = (TodayDay(now) >= goal.target_date)
        /\ (progress.isAchieved /\ TodayDay(now) < goal.target_date
                => ~progress.isCompleted)
        /\ (~progress.isAchieved /\ TodayDay(now) >= goal.target_date
                => ~progress.isCompleted)
        /\ (progress.isAchieved /\ TodayDay(now) >= goal.target_date
                => progress.isCompleted)

C1_Witness ==
    /\ pcG = "done" /\ ~goal.completed
    /\ goal.target_distance = 3000 /\ goal.target_pace = Null
    /\ SumDistance(gRuns) > 3000
    /\ TodayDay(now) < goal.target_date
    /\ progress.isAchieved /\ ~progress.isDateReached /\ ~progress.isCompleted

QualifyingRunWithin(rs, target_pace) ==
    \E i \in 1..Len(rs) :
        rs[i].distance >= OneMile /\ rs[i].pace <= target_pace

\* C2: for an open goal with both target_distance and target_pace set,
\* isAchieved holds exactly when the total distance reaches target_distance
\* and a run of at least one mile has pace <= target_pace.
C2_CombinedIsConjunctive ==
    (/\ pcG = "done" /\ ~goal.completed
     /\ Truthy(goal.target_distance) /\ Truthy(goal.target_pace)) =>
        progress.isAchieved =
            (/\ CalculateTotalDistance(gRuns) >= goal.target_distance
             /\ QualifyingRunWithin(gRuns, goal.target_pace))

C2_Witness ==
    /\ pcG = "done" /\ ~goal.completed
    /\ goal.target_distance = 3000 /\ goal.target_pace = 800
    /\ CalculateTotalDistance(gRuns) >= 3000
    /\ ~QualifyingRunWithin(gRuns, 800)
    /\ Len(SelectSeq(gRuns, IsValidRun)) > 0
    /\ ~progress.isAchieved

\* C3: for a goal whose completed flag is already true the result is
\* isCompleted, isAchieved, message "Goal completed", whatever the runs and
\* the date; isDateReached is still the date comparison.
C3_CompletedIsSticky ==
    (pcG = "done" /\ goal.completed) =>
        /\ progress.isCompleted
        /\ progress.isAchieved
        /\ progress.message = <<"Goal completed">>
        /\ progress.isDateReached = (TodayDay(now) >= goal.target_date)

C3_Witness ==
    /\ pcG = "done" /\ goal.completed
    /\ gRuns = <<>>
    /\ TodayDay(now) < goal.target_date
    /\ progress.isCompleted /\ ~progress.isDateReached

OpenAndDue(g) ==
    ~g.completed /\ CheckGoalCompletion(g, bRuns, bNow1).isCompleted

FlipAll(gs) == [i \in 1..Len(gs) |-> [gs[i] EXCEPT !.completed = TRUE]]

\* C4: checkAllGoalsForCompletion returns, in input order, exactly the open
\* goals whose evaluation says isCompleted (each copied with completed=true);
\* no goal already completed, unachieved or before its date is returned.
C4_BatchReturnsNewlyCompleted ==
    (pcB = "called") =>
        /\ bOut1 = FlipAll(SelectSeq(bGoals, OpenAndDue))
        /\ \A k \in 1..Len(bOut1) :
            LET g == bGoals[bOut1[k].id]
                p == CheckGoalCompletion(g, bRuns, bNow1)
            IN  ~g.completed /\ p.isAchieved /\ p.isDateReached

C4_Witness ==
    /\ pcB = "called"
    /\ Len(bGoals) = 2 /\ Len(bOut1) = 1
    /\ bGoals[1].completed /\ bOut1[1].id = 2

ReturnedIds(out) == {out[k].id : k \in 1..Len(out)}

\* C5 as claimed: after the returned goals were stored, a second call with
\* the same runs returns the empty list.
C5_SecondCallEmpty == (pcB = "recalled") => bOut2 = <<>>

\* C5 as amended: the second call returns none of the goals the first call
\* returned, and returns the empty list when it runs on the same calendar
\* day as the first.
C5_SecondCallEmptySameDay ==
    (pcB = "recalled") =>
        /\ ReturnedIds(bOut2) \cap ReturnedIds(bOut1) = {}
        /\ (TodayDay(bNow2) = TodayDay(bNow1) => bOut2 = <<>>)

C5_Witness ==
    /\ pcB = "recalled"
    /\ Len(bOut1) = 2
    /\ TodayDay(bNow2) = TodayDay(bNow1) /\ bNow2 > bNow1
    /\ bOut2 = <<>>

CompletedEntries(rows, id) ==
    Len(SelectSeq(rows, LAMBDA g : g.id = id /\ g.completed))

\* Some goal present before and after the step has a completed flag that was
\* true before the step and is false after it.
Uncompleted(before, after) ==
    \E id \in Ids(before) \cap Ids(after) :
        CompletedEntries(after, id) < CompletedEntries(before, id)

HandlerKinds ==
    {"addRun", "updateRun", "deleteRun", "addGoal", "updateGoal", "deleteGoal",
     "toggleGoalCompletion", "checkGoalCompletions"}

\* C6: in every step taken by a call of addRun, updateRun, deleteRun, addGoal,
\* updateGoal, deleteGoal, toggleGoalCompletion or checkGoalCompletions, in
\* any interleaving, a goal's completed flag goes from true to false, in the
\* local list or in the persisted rows, only if the call is a toggle or an
\* edit (updateGoal); a step of checkGoalCompletions never does it.
C6_EvaluatorNeverUncompletes ==
    [][\A i \in 1..Len(pending) :
          (/\ pending[i].kind \in HandlerKinds
           /\ DbExec(i) \/ Resume(i)
           /\ Uncompleted(goals, goals') \/ Uncompleted(dbGoals, dbGoals'))
          => pending[i].kind \in {"toggleGoalCompletion", "updateGoal"}]_vars

\* checkGoalCompletions is about to mark a goal that a toggle has completed
\* since the evaluation.
C6_Witness ==
    \E i \in 1..Len(pending) :
        /\ pending[i].kind = "checkGoalCompletions"
        /\ pending[i].stage = "responded" /\ Len(pending[i].todo) = 1
        /\ \E k \in 1..Len(goals) :
            goals[k].id \in Ids(pending[i].rows) /\ goals[k].completed
        /\ \E k \in 1..Len(dbGoals) :
            dbGoals[k].id \in Ids(pending[i].rows) /\ dbGoals[k].completed

ChangeKinds ==
    {"addRun", "updateRun", "deleteRun", "addGoal", "updateGoal", "deleteGoal"}

\* C7 as claimed: whenever the continuation of addRun, updateRun, deleteRun,
\* addGoal, updateGoal or deleteGoal changes the run list or the goal list of
\* a logged-in user, checkGoalCompletions is called on the new lists, so that
\* the update of every open goal now achieved with its date reached is
\* requested.
C7_EvaluatorRunsOnEveryChange ==
    [][\A i \in 1..Len(pending) :
          (/\ pending[i].kind \in ChangeKinds
           /\ Resume(i)
           /\ currentUserId # NoUser
           /\ runs' # runs \/ goals' # goals)
          => pending' = CheckGoalCompletionsStart(currentUserId, runs', goals',
                                                  PendingAfter(i))]_vars

\* C8: processFiles ends with exactly one ImportResult per input file, in
\* the order of the files, result i carrying the name of file i, whatever
\* the extension, the read outcome, the parse value and the addRun outcomes;
\* while it runs, every file before the current one has its result.
C8_OneResultPerFile ==
    /\ imp.pc \in {"read", "parse", "persist"} =>
            Len(imp.newResults) = imp.idx - 1
    /\ imp.pc = "done" =>
        /\ ~isProcessing
        /\ Len(results) = Len(files)
        /\ \A i \in 1..Len(files) : results[i].fileName = files[i].name

C8_Witness ==
    /\ imp.pc = "done" /\ Len(files) = 2
    /\ ~IsSupported(files[1].name)
    /\ IsCsv(files[2].name) /\ Len(files[2].recs) = 2
    /\ ~results[1].success /\ results[2].success

StepOf(st, fs, uid) ==
    CASE st.pc = "read"    -> ReadSettles(st, fs)
      [] st.pc = "parse"   -> ParseResumes(st, fs)
      [] st.pc = "persist" ->
            AddRunSettles(st, fs, AddRunOutcome(uid, fs[st.idx], st.recIdx))

RECURSIVE RunToEnd(_, _, _)
RunToEnd(st, fs, uid) ==
    IF st.pc \in {"done", "thrown"} THEN st
    ELSE RunToEnd(StepOf(st, fs, uid), fs, uid)

\* The results of processFiles on the batch without file i.
ResultsWithout(i) ==
    RunToEnd(ProcessFilesStart(RemoveAt(files, i)), RemoveAt(files, i),
             currentUserId).newResults

RaisedIn(i) == \E where \in {"read", "persist"} : <<i, where>> \in imp.raised

LaterFilesUnaffected(i) ==
    \A j \in (i + 1)..Len(files) : results[j] = ResultsWithout(i)[j - 1]

\* C9 as claimed: when reading or persisting file i raises an error, result
\* i has success = false, every later file has the result it has in the
\* batch without file i, and no error leaves processFiles.
C9_FaultIsolation ==
    /\ imp.pc # "thrown"
    /\ imp.pc = "done" =>
        \A i \in 1..Len(files) :
            RaisedIn(i) => ~results[i].success /\ LaterFilesUnaffected(i)

Returned(recs) == Len(SelectSeq(recs, LAMBDA o : o # "throw"))

\* C9 as amended: no error leaves processFiles and every later file has the
\* result it has in the batch without file i; result i has success = false
\* when the read raised or the addRun of a TCX/GPX file raised; for a CSV
\* file whose addRun calls raised, the raising records are counted as failed
\* and success says whether some record's call returned.
C9_FaultIsolationPerRecord ==
    /\ imp.pc # "thrown"
    /\ imp.pc = "done" =>
        \A i \in 1..Len(files) :
            RaisedIn(i) =>
                /\ LaterFilesUnaffected(i)
                /\ IF IsCsv(files[i].name) /\ <<i, "persist">> \in imp.raised
                    THEN /\ results[i].success = (Returned(files[i].recs) > 0)
                         /\ results[i].runCount = Returned(files[i].recs)
                    ELSE /\ ~results[i].success
                         /\ results[i].message[1] = "Error processing file"

C9_Witness ==
    /\ imp.pc = "done" /\ Len(files) = 2
    /\ <<1, "persist">> \in imp.raised /\ ~IsCsv(files[1].name)
    /\ ~results[1].success
    /\ <<2, "persist">> \in imp.raised /\ IsCsv(files[2].name)
    /\ results[2].success

\* The extension of a file name: what follows its last dot, none without one.
NameExtension(name) == IF IndexOfDot(name) = 0 THEN <<>> ELSE FileExtension(name)

LoggedFor(n) == \E k \in 1..Len(imp.log) : imp.log[k][2] = n

\* C10 as claimed: a file whose extension is not tcx, gpx or csv, a name
\* without extension included, is never read, never parsed and never causes
\* an addRun call, and its result is the unsupported-format failure.
C10_UnsupportedNeverRead ==
    \A n \in 1..Len(files) :
        NameExtension(files[n].name) \notin SupportedExtensions =>
            /\ ~LoggedFor(n)
            /\ n <= Len(imp.newResults) =>
                    imp.newResults[n] = UnsupportedResult(files[n].name)

\* The records of a file that addRun inserted and added to the run list.
Inserted(file) ==
    IF IsSupported(file.name) /\ file.readOk
        THEN Len(SelectSeq(file.recs, LAMBDA o : o = "ok"))
        ELSE 0

RECURSIVE InsertedByAll(_)
InsertedByAll(fs) ==
    IF fs = <<>> THEN 0 ELSE Inserted(Head(fs)) + InsertedByAll(Tail(fs))

AddRunCalls(n) ==
    Len(SelectSeq(imp.log, LAMBDA ev : ev = <<"addRun", n>>))

\* C11 as claimed: for a CSV file whose parser returned k records, addRun is
\* called once per record whatever the earlier calls did, and the result
\* reports N successes and k - N failures, N being the number of records
\* that were inserted and added to the run list.
C11_CsvCountsPersisted ==
    imp.pc = "done" =>
        /\ Len(runs) = InsertedByAll(files)
        /\ \A n \in 1..Len(files) :
            (IsCsv(files[n].name) /\ files[n].readOk /\ Len(files[n].recs) > 0) =>
                /\ AddRunCalls(n) = Len(files[n].recs)
                /\ results[n] = CsvResult(files[n].name, Inserted(files[n]),
                                          Len(files[n].recs) - Inserted(files[n]))

\* C12 as claimed: a TCX or GPX file that parsed but whose addRun call was
\* rejected has success = false, and success = true for such a file implies
\* that its run was added to the run list.
C12_SingleRunRejected ==
    imp.pc = "done" =>
        /\ Len(runs) = InsertedByAll(files)
        /\ \A n \in 1..Len(files) :
            (/\ IsSupported(files[n].name) /\ ~IsCsv(files[n].name)
             /\ files[n].readOk /\ Len(files[n].recs) = 1) =>
                /\ files[n].recs[1] # "ok" => ~results[n].success
                /\ results[n].success => Inserted(files[n]) = 1

Qualifying(rs) == {i \in 1..Len(rs) : rs[i].distance >= OneMile}

PaceOnly == Truthy(goal.target_pace) /\ ~Truthy(goal.target_distance) /\ ~goal.completed

BestPaces == {gRuns[i].pace : i \in Qualifying(gRuns)}

BestPace == CHOOSE b \in BestPaces : \A c \in BestPaces : b <= c

IsPercent(p, n, d) == p.den # 0 /\ p.num * d = n * 100 * p.den

\* C19 as claimed: for a pace-only goal that is not completed, isAchieved is
\* true iff a run of at least one mile exists and the lowest pace among them
\* is at most target_pace, and paceProgress is target_pace / bestPace * 100
\* whenever a best pace exists and is positive, achieved or not, and 0
\* otherwise.
C19_PaceProgressRatio ==
    (pcG = "done" /\ PaceOnly) =>
        /\ progress.isAchieved <=> (BestPaces # {} /\ BestPace <= goal.target_pace)
        /\ IF BestPaces # {} /\ BestPace > 0
               THEN IsPercent(progress.paceProgress, goal.target_pace, BestPace)
               ELSE IsPercent(progress.paceProgress, 0, 1)

\* C19 as the code has it: isAchieved as claimed; paceProgress is exactly 100
\* when the goal is achieved, target_pace / bestPace * 100 when it is not and
\* a positive best pace exists, and 0 otherwise.
C19_PaceProgressCapped ==
    (pcG = "done" /\ PaceOnly) =>
        /\ progress.isAchieved <=> (BestPaces # {} /\ BestPace <= goal.target_pace)
        /\ IF progress.isAchieved
               THEN IsPercent(progress.paceProgress, 1, 1)
            ELSE IF BestPaces # {} /\ BestPace > 0
               THEN IsPercent(progress.paceProgress, goal.target_pace, BestPace)
               ELSE IsPercent(progress.paceProgress, 0, 1)

C19_Witness ==
    /\ pcG = "done" /\ PaceOnly
    /\ progress.isAchieved
    /\ BestPaces # {} /\ BestPace < goal.target_pace
    /\ IsPercent(progress.paceProgress, 1, 1)

\* C20 as claimed: for a goal with both targets that is not completed, the
\* percentage getGoalProgressPercentage returns is the average of
\* distanceProgress and paceProgress, capped at 100.
C20_CombinedAverage ==
    LET p == CheckGoalCompletion(goal, gRuns, now)
    IN  (/\ pcG = "percent"
         /\ Truthy(goal.target_distance) /\ Truthy(goal.target_pace)
         /\ ~p.isCompleted) =>
            LET avg == MinPercent(Average(p.distanceProgress, p.paceProgress))
            IN  gPercent.den # 0 /\ gPercent.num * avg.den = avg.num * gPercent.den

C13_RecordsPositive ==
    pcP = "done" =>
        \A k \in 1..Len(parsed.runs) :
            /\ parsed.runs[k].distance # NaN /\ parsed.runs[k].distance > 0
            /\ parsed.runs[k].duration # NaN /\ parsed.runs[k].duration > 0

HeaderOf(d) == CHOOSE h \in DOMAIN CsvHeaders : CsvHeaders[h] = d.lines[1]

RowOf(d, k) == CHOOSE r \in DOMAIN CsvRows : CsvRows[r] = d.lines[k + 1]

DataLines(d) == 1..(Len(d.lines) - 1)

\* The header that lacks the Time column.
MissingColumn(d) == HeaderOf(d) = 3

\* C14 as claimed: a CSV file that lacks a required column fails with an
\* error outcome, which is not the null a well-formed file without a valid
\* row returns.
C14_StructuralFailureDistinct ==
    (pcP = "done" /\ doc.kind = "csv") =>
        /\ MissingColumn(doc) => parsed.outcome # "null"
        /\ (~MissingColumn(doc) /\ parsed.runs = <<>>) => parsed.outcome = "null"

\* The data lines that have a parseable date, a positive distance, a
\* parseable positive time and, where the header has the column, an activity
\* type naming a run or a jog, read off the lines under each header.
ValidRows(h) ==
    CASE h = 1 -> {1, 3, 6, 11}
      [] h = 2 -> {1, 3, 4, 5, 6, 11}
      [] h = 4 -> {12, 14, 15, 16, 17}
      [] OTHER -> {}

\* Line 5 has an empty activity cell: left out where the column exists.
RowTolerantScope(d) ==
    /\ d.kind = "csv"
    /\ HeaderOf(d) \in {1, 2, 4}
    /\ HeaderOf(d) = 1 => \A k \in DataLines(d) : RowOf(d, k) # 5

Alone(d, k) == ParseCSVFile(<<d.lines[1], d.lines[k + 1]>>, d.west).runs

RECURSIVE EachAlone(_, _)
EachAlone(d, k) == IF k = 0 THEN <<>> ELSE EachAlone(d, k - 1) \o Alone(d, k)

RunningRows(h) ==
    CASE h = 1 -> {1, 2, 3, 6, 7, 8, 9, 11}
      [] h = 4 -> {12, 14, 15, 16, 17}
      [] OTHER -> {}

\* C16 as claimed: under a header with an Activity Type column only the
\* lines whose activity type contains "run" or "jog" yield a record; every
\* other line, one with an empty activity cell included, yields none.
C16_ActivityFilter ==
    (pcP = "done" /\ doc.kind = "csv" /\ HeaderOf(doc) \in {1, 4}) =>
        \A k \in DataLines(doc) :
            RowOf(doc, k) \notin RunningRows(HeaderOf(doc)) => Alone(doc, k) = <<>>

\* C21: a call of addRun, updateRun, deleteRun, addGoal, updateGoal,
\* deleteGoal or toggleGoalCompletion made while no user is logged in issues
\* no request and leaves the local lists and the stored rows as they are;
\* fetchRuns, fetchGoals and checkGoalCompletions called without a user issue
\* no request either.
C21_NoUserNoEffect ==
    /\ [](currentUserId = NoUser =>
            /\ FetchRunsStart(currentUserId, pending) = pending
            /\ FetchGoalsStart(currentUserId, pending) = pending
            /\ CheckGoalCompletionsStart(currentUserId, runs, goals, pending) = pending)
    /\ [][(currentUserId = NoUser /\ lastStep'.step = "call") =>
            UNCHANGED <<pending, runs, goals, dbRuns, dbGoals, nextId>>]_vars

\* deleteGoal was called without a user for a goal that is stored: the row is
\* still there and no request is in flight.
C21_Witness ==
    /\ currentUserId = NoUser
    /\ lastStep.step = "call" /\ lastStep.kind = "deleteGoal" /\ lastStep.uid = NoUser
    /\ dbGoals # <<>> /\ pending = <<>>

\* C26 as claimed: while no user is logged in the local run list and goal
\* list are empty, also after a fetchRuns or fetchGoals request started for
\* the user who logged out has returned.
C26_LoggedOutListsEmpty ==
    currentUserId = NoUser => (runs = <<>> /\ goals = <<>>)

\* C27 as claimed: when the update checkGoalCompletions requested for a goal
\* is answered with an error, the continuation leaves that goal's local
\* completed flag false.
C27_EvaluatorMarksOnlyPersisted ==
    [][\A i \in 1..Len(pending) :
          (/\ pending[i].kind = "checkGoalCompletions"
           /\ Resume(i)
           /\ ~pending[i].ok)
          => \A k \in 1..Len(goals) :
                (goals[k].id = Head(pending[i].todo).id /\ ~goals[k].completed)
                    => ~goals'[k].completed]_vars

\* C28 as claimed: when a toggleGoalCompletion call has finished and no call
\* is in flight any more, the local completed flag of every goal equals the
\* completed value of its stored row, also when the call overlapped another
\* toggle of the same goal.
C28_ToggleAgreesWithStore ==
    (/\ lastStep.step = "resume" /\ lastStep.kind = "toggleGoalCompletion"
     /\ lastStep.ok
     /\ pending = <<>>) =>
        \A k \in 1..Len(goals), j \in 1..Len(dbGoals) :
            goals[k].id = dbGoals[j].id => goals[k].completed = dbGoals[j].completed

MutatingKinds ==
    {"addRun", "updateRun", "deleteRun", "addGoal", "updateGoal", "deleteGoal",
     "toggleGoalCompletion"}

\* C29: the continuation of addRun, updateRun, deleteRun, addGoal,
\* updateGoal, deleteGoal or toggleGoalCompletion that runs on an error
\* response leaves the local run list and goal list as they are.
C29_ErrorLeavesListsUnchanged ==
    [][(/\ lastStep'.step = "resume"
        /\ lastStep'.kind \in MutatingKinds
        /\ ~lastStep'.ok)
       => (runs' = runs /\ goals' = goals)]_vars

\* deleteRun was answered with an error: the run is still listed and stored.
C29_Witness ==
    /\ lastStep.step = "resume" /\ lastStep.kind = "deleteRun" /\ ~lastStep.ok
    /\ runs # <<>> /\ dbRuns # <<>>
    /\ \E k \in 1..Len(runs) : runs[k].id \in Ids(dbRuns)

IsSet(target) == target > 0

CombinedMessages ==
    {"Both distance and pace goals achieved!",
     "Distance achieved, pace goal remaining",
     "Pace achieved, distance goal remaining",
     "Working towards both distance and pace goals"}

CombinedEntered(p) == \E k \in 1..Len(p.message) : p.message[k] \in CombinedMessages

\* C25: for an open goal checkGoalCompletion takes the combined branch only
\* when both targets are set; with the distance target alone (pace target
\* null or zero) isAchieved is the distance criterion and no pace progress is
\* reported, with the pace target alone (distance target null or zero)
\* isAchieved is the pace criterion and no distance progress is reported.
C25_SingleTargetSingleBranch ==
    (pcG = "done" /\ ~goal.completed) =>
        /\ CombinedEntered(progress)
            => (IsSet(goal.target_distance) /\ IsSet(goal.target_pace))
        /\ (IsSet(goal.target_distance) /\ ~IsSet(goal.target_pace)) =>
            /\ progress.isAchieved =
                (CalculateTotalDistance(gRuns) >= goal.target_distance)
            /\ progress.paceProgress = Undefined
            /\ progress.distanceProgress # Undefined
        /\ (~IsSet(goal.target_distance) /\ IsSet(goal.target_pace)) =>
            /\ progress.isAchieved = QualifyingRunWithin(gRuns, goal.target_pace)
            /\ progress.distanceProgress = Undefined
            /\ progress.paceProgress # Undefined

\* A pace goal whose distance target is zero, no run fast enough: not
\* achieved although the total distance is at least zero.
C25_Witness ==
    /\ pcG = "done" /\ ~goal.completed
    /\ goal.target_distance = 0 /\ goal.target_pace = 800
    /\ gRuns # <<>> /\ ~QualifyingRunWithin(gRuns, 800)
    /\ ~progress.isAchieved
    /\ progress.distanceProgress = Undefined
    /\ ~CombinedEntered(progress)

CompletePoint(p) == p.lat # <<>> /\ p.lon # <<>> /\ p.time # <<>>

\* C22 as claimed: parseGPX returns a record only for a file with a track of
\* at least 2 track points each of which has a lat attribute, a lon
\* attribute and a time child.
C22_GpxRequiresCompletePoints ==
    (pcP = "done" /\ doc.kind = "gpx" /\ parsed.outcome = "runs") =>
        /\ doc.trk
        /\ Len(doc.points) >= 2
        /\ \A k \in 1..Len(doc.points) : CompletePoint(doc.points[k])

QuotesBefore(text, k) == Cardinality({m \in 1..(k - 1) : text[m] = "\""})

\* The commas preceded by an even number of double quotes.
SplitPoints(text) ==
    {k \in 1..Len(text) : text[k] = "," /\ QuotesBefore(text, k) % 2 = 0}

\* Where field j starts and ends: after split point j - 1, before split
\* point j.
Boundary(text, j) ==
    IF j = 0 THEN 0
    ELSE IF j > Cardinality(SplitPoints(text)) THEN Len(text) + 1
    ELSE CHOOSE k \in SplitPoints(text) :
            Cardinality({m \in SplitPoints(text) : m < k}) = j - 1

FieldText(text, j) ==
    Trim(SelectSeq(SubSeq(text, Boundary(text, j - 1) + 1, Boundary(text, j) - 1),
                   LAMBDA c : c # "\""))

\* C23: parseCSVLine returns 1 + (number of commas preceded by an even
\* number of double quotes) fields; field j is the text between split point
\* j - 1 and split point j with the double quotes dropped, so a comma inside
\* quotes stays in its field, trimmed.
C23_QuoteAwareSplit ==
    (pcP = "done" /\ doc.kind = "line") =>
        /\ Len(parsed.fields) = 1 + Cardinality(SplitPoints(doc.text))
        /\ \A j \in 1..Len(parsed.fields) : parsed.fields[j] = FieldText(doc.text, j)

\* The line "a,a" in double quotes is one field.
C23_Witness ==
    /\ pcP = "done" /\ doc.kind = "line"
    /\ doc.text = <<"\"", "a", ",", "a", "\"">>
    /\ parsed.fields = << <<"a", ",", "a">> >>

\* The pace, in hundredths of a minute per mile, of the record of a data
\* line: under the header with an Avg Pace column (4) the cell 9:02 or 9.5
\* where there is one, else 28:00 over 3.1 miles; under the headers without
\* the column (1, 2) the time over the distance.
ExpectedPace ==
    <<4, 12>> :> 903 @@ <<4, 14>> :> 903 @@ <<4, 15>> :> 903 @@ <<4, 16>> :> 950
    @@ <<4, 17>> :> 903 @@ <<1, 1>> :> 903 @@ <<2, 1>> :> 903 @@ <<2, 4>> :> 500

\* C24 as claimed: the pace of a CSV record is the Avg Pace cell when the
\* column exists and the cell is parseable, and pace(distance, duration)
\* when the column is absent, the cell empty or the cell unparseable.
C24_PaceFromColumnOrDerived ==
    (pcP = "done" /\ doc.kind = "csv") =>
        \A k \in DataLines(doc) :
            (/\ <<HeaderOf(doc), RowOf(doc, k)>> \in DOMAIN ExpectedPace
             /\ Alone(doc, k) # <<>>)
            => Alone(doc, k)[1].pace = ExpectedPace[<<HeaderOf(doc), RowOf(doc, k)>>]

\* C30 as claimed: the header line is split into fields as the data lines
\* are, also with a quoted cell that contains a comma; under the header
\* Date,"Distance, mi",Time the line 1/1/2024,3.1,28:00 gives the record of
\* 3.1 miles in 28 minutes.
C30_HeaderSplitAsData ==
    (pcP = "done" /\ doc.kind = "csv") =>
        /\ SplitHeader(doc.lines[1]) = ParseCSVLine(doc.lines[1])
        /\ \A k \in DataLines(doc) :
            (HeaderOf(doc) = 5 /\ RowOf(doc, k) = 18) =>
                /\ Alone(doc, k) # <<>>
                /\ Alone(doc, k)[1].distance = 310
                /\ Alone(doc, k)[1].duration = 2800

=============================================================================
